---- MODULE Spec2Model ----
(***************************************************************************)
(* ResumeRanker: the response-recovery layer of the scoring path (Spec),   *)
(* name extraction (SpecName), the criteria and scoring adapters of the    *)
(* routes (SpecAdapters), the retry wrapper (SpecRetry), the endpoints     *)
(* with the batch loop and the CSV (SpecRoutes) and two adapter calls      *)
(* with their crews served at the same time (SpecCrews).                   *)
(*                                                                         *)
(* An agent response is a text.  The text is modelled as the sequence of   *)
(* its lexical tokens (braces, brackets, commas, colons, quoted strings,   *)
(* number literals, bare words); white space between tokens is dropped.    *)
(* json.loads / json.dumps and the regular expressions of the source are   *)
(* modelled as a parser, a printer and pattern scanners over that token    *)
(* sequence.  Quoted strings hold neither a quote nor a digit.             *)
(***************************************************************************)
EXTENDS Integers, Sequences, FiniteSets, TLC

(***************************************************************************)
(* Bounds of the model.                                                    *)
(***************************************************************************)
\* number of fragments an agent response is assembled from
MaxFrags == 2

(***************************************************************************)
(* Tokens.  t: kind; s: content of a quoted string or a bare word;         *)
(* n: digits of a number literal; f: fraction digit of a float literal.    *)
(*   "lb" {   "rb" }   "ls" [   "rs" ]   "comma"   "colon"                 *)
(*   "str" quoted string   "num" unsigned integer   "neg" -n               *)
(*   "flt" n.f   "nan" NaN   "null" null   "word" bare text                *)
(***************************************************************************)
Tok(t, s, n, f) == [t |-> t, s |-> s, n |-> n, f |-> f]
LB == Tok("lb", "", 0, 0)
RB == Tok("rb", "", 0, 0)
LS == Tok("ls", "", 0, 0)
RS == Tok("rs", "", 0, 0)
COMMA == Tok("comma", "", 0, 0)
COLON == Tok("colon", "", 0, 0)
NULLT == Tok("null", "", 0, 0)
NANT == Tok("nan", "", 0, 0)
Str(s) == Tok("str", s, 0, 0)
Num(n) == Tok("num", "", n, 0)
Neg(n) == Tok("neg", "", n, 0)
Flt(n, f) == Tok("flt", "", n, f)
Word(s) == Tok("word", s, 0, 0)

(***************************************************************************)
(* Parsed JSON values (what json.loads returns).  k: kind.                 *)
(*   "str" s   "int" n   "float" n + f/10   "nan"   "null"                 *)
(*   "list" items   "dict" members (key/value pairs in text order)         *)
(***************************************************************************)
JVal(k, s, n, f, items, members) ==
    [k |-> k, s |-> s, n |-> n, f |-> f, items |-> items, members |-> members]
JStr(s) == JVal("str", s, 0, 0, <<>>, <<>>)
JInt(n) == JVal("int", "", n, 0, <<>>, <<>>)
JFloat(n, f) == JVal("float", "", n, f, <<>>, <<>>)
JNaN == JVal("nan", "", 0, 0, <<>>, <<>>)
JNull == JVal("null", "", 0, 0, <<>>, <<>>)
JList(items) == JVal("list", "", 0, 0, items, <<>>)
JDict(members) == JVal("dict", "", 0, 0, <<>>, members)
Member(key, val) == [key |-> key, val |-> val]

\* `key in d` for a dict
HasKey(d, key) == \E i \in 1..Len(d.members) : d.members[i].key = key

\* d[key] for a dict: json.loads keeps the last of repeated keys
RECURSIVE LastIndex(_, _, _)
LastIndex(members, key, i) ==
    IF i = 0 THEN 0
    ELSE IF members[i].key = key THEN i
    ELSE LastIndex(members, key, i - 1)

Get(d, key) == d.members[LastIndex(d.members, key, Len(d.members))].val

(***************************************************************************)
(* json.loads: a recursive-descent parser over the tokens.  ok = FALSE is  *)
(* json.JSONDecodeError.                                                   *)
(***************************************************************************)
ParseFail == [ok |-> FALSE, val |-> JNull, next |-> 0]
ParseOk(val, next) == [ok |-> TRUE, val |-> val, next |-> next]

RECURSIVE ParseValue(_, _)
RECURSIVE ParseElements(_, _, _)
RECURSIVE ParseMembers(_, _, _)

ParseValue(toks, i) ==
    IF i > Len(toks) THEN ParseFail
    ELSE LET tk == toks[i] IN
         CASE tk.t = "str" -> ParseOk(JStr(tk.s), i + 1)
           [] tk.t = "num" -> ParseOk(JInt(tk.n), i + 1)
           [] tk.t = "neg" -> ParseOk(JInt(0 - tk.n), i + 1)
           [] tk.t = "flt" -> ParseOk(JFloat(tk.n, tk.f), i + 1)
           [] tk.t = "nan" -> ParseOk(JNaN, i + 1)
           [] tk.t = "null" -> ParseOk(JNull, i + 1)
           [] tk.t = "ls" ->
                IF i + 1 <= Len(toks) /\ toks[i + 1].t = "rs"
                THEN ParseOk(JList(<<>>), i + 2)
                ELSE ParseElements(toks, i + 1, <<>>)
           [] tk.t = "lb" ->
                IF i + 1 <= Len(toks) /\ toks[i + 1].t = "rb"
                THEN ParseOk(JDict(<<>>), i + 2)
                ELSE ParseMembers(toks, i + 1, <<>>)
           [] OTHER -> ParseFail

ParseElements(toks, i, acc) ==
    LET r == ParseValue(toks, i) IN
    IF ~r.ok \/ r.next > Len(toks) THEN ParseFail
    ELSE IF toks[r.next].t = "comma"
         THEN ParseElements(toks, r.next + 1, Append(acc, r.val))
    ELSE IF toks[r.next].t = "rs"
         THEN ParseOk(JList(Append(acc, r.val)), r.next + 1)
    ELSE ParseFail

ParseMembers(toks, i, acc) ==
    IF i + 1 > Len(toks) \/ toks[i].t # "str" \/ toks[i + 1].t # "colon"
    THEN ParseFail
    ELSE LET r == ParseValue(toks, i + 2) IN
         IF ~r.ok \/ r.next > Len(toks) THEN ParseFail
         ELSE IF toks[r.next].t = "comma"
              THEN ParseMembers(toks, r.next + 1,
                                Append(acc, Member(toks[i].s, r.val)))
         ELSE IF toks[r.next].t = "rb"
              THEN ParseOk(JDict(Append(acc, Member(toks[i].s, r.val))),
                           r.next + 1)
         ELSE ParseFail

Loads(toks) ==
    LET r == ParseValue(toks, 1) IN
    IF r.ok /\ r.next = Len(toks) + 1
    THEN [ok |-> TRUE, val |-> r.val]
    ELSE [ok |-> FALSE, val |-> JNull]

(***************************************************************************)
(* json.dumps of {"scores": [{"criterion": .., "score": .., "justification":*)
(* ..}, ...]}: the only values the source serialises.  A score object is   *)
(* [criterion, score, justification].                                      *)
(***************************************************************************)
ScoreObj(c, n, j) == [criterion |-> c, score |-> n, justification |-> j]

DumpsObj(o) ==
    << LB, Str("criterion"), COLON, Str(o.criterion), COMMA,
       Str("score"), COLON, (IF o.score < 0 THEN Neg(0 - o.score) ELSE Num(o.score)), COMMA,
       Str("justification"), COLON, Str(o.justification), RB >>

RECURSIVE DumpsObjs(_)
DumpsObjs(objs) ==
    IF objs = <<>> THEN <<>>
    ELSE IF Len(objs) = 1 THEN DumpsObj(objs[1])
    ELSE DumpsObj(objs[1]) \o <<COMMA>> \o DumpsObjs(Tail(objs))

DumpsScores(objs) ==
    <<LB, Str("scores"), COLON, LS>> \o DumpsObjs(objs) \o <<RS, RB>>

(***************************************************************************)
(* The regular expressions of the source, as scanners over the tokens.     *)
(* re.findall returns the non-overlapping matches from left to right.      *)
(***************************************************************************)
\* length in tokens of { "criterion" : "c" , "score" : n , "justification" : "j" }
FullLen == 13

\* \{\s*"criterion":\s*"([^"]*)"\s*,\s*"score":\s*(\d+)\s*,\s*"justification":\s*"([^"]*?)"\s*\}
FullAt(toks, i) ==
    /\ i + FullLen - 1 <= Len(toks)
    /\ toks[i] = LB
    /\ toks[i + 1] = Str("criterion")
    /\ toks[i + 2] = COLON
    /\ toks[i + 3].t = "str"
    /\ toks[i + 4] = COMMA
    /\ toks[i + 5] = Str("score")
    /\ toks[i + 6] = COLON
    /\ toks[i + 7].t = "num"
    /\ toks[i + 8] = COMMA
    /\ toks[i + 9] = Str("justification")
    /\ toks[i + 10] = COLON
    /\ toks[i + 11].t = "str"
    /\ toks[i + 12] = RB

RECURSIVE FindFull(_, _)
FindFull(toks, i) ==
    IF i > Len(toks) THEN <<>>
    ELSE IF FullAt(toks, i)
         THEN <<ScoreObj(toks[i + 3].s, toks[i + 7].n, toks[i + 11].s)>>
              \o FindFull(toks, i + FullLen)
    ELSE FindFull(toks, i + 1)

\* "criterion":\s*"([^"]*)"
CriterionAt(toks, i) ==
    /\ i + 2 <= Len(toks)
    /\ toks[i] = Str("criterion")
    /\ toks[i + 1] = COLON
    /\ toks[i + 2].t = "str"

RECURSIVE FindCriteria(_, _)
FindCriteria(toks, i) ==
    IF i > Len(toks) THEN <<>>
    ELSE IF CriterionAt(toks, i)
         THEN <<toks[i + 2].s>> \o FindCriteria(toks, i + 3)
    ELSE FindCriteria(toks, i + 1)

\* "score":\s*(\d+)   (of a float n.f the pattern takes the digits n)
ScoreAt(toks, i) ==
    /\ i + 2 <= Len(toks)
    /\ toks[i] = Str("score")
    /\ toks[i + 1] = COLON
    /\ toks[i + 2].t \in {"num", "flt"}

RECURSIVE FindScores(_, _)
FindScores(toks, i) ==
    IF i > Len(toks) THEN <<>>
    ELSE IF ScoreAt(toks, i)
         THEN <<toks[i + 2].n>> \o FindScores(toks, i + 3)
    ELSE FindScores(toks, i + 1)

\* (\d+): every run of digits; -n gives n, n.f gives n and f
RECURSIVE FindNumbers(_, _)
FindNumbers(toks, i) ==
    IF i > Len(toks) THEN <<>>
    ELSE (CASE toks[i].t \in {"num", "neg"} -> <<toks[i].n>>
            [] toks[i].t = "flt" -> <<toks[i].n, toks[i].f>>
            [] OTHER -> <<>>)
         \o FindNumbers(toks, i + 1)

Min(a, b) == IF a < b THEN a ELSE b
Max(a, b) == IF a > b THEN a ELSE b

\* the valid range of a score is 0..MaxScore
MaxScore == 5

\* faulty variant: the criteria are paired with the scores from the last backwards
PairUpReversed(cs, ss, j) ==
    [i \in 1..Min(Len(cs), Len(ss)) |-> ScoreObj(cs[i], ss[Len(ss) + 1 - i], j)]

\* the positional pairs of tier 3
PairUp(cs, ss, j) ==
    [i \in 1..Min(Len(cs), Len(ss)) |-> ScoreObj(cs[i], ss[i], j)]

(***************************************************************************)
(* ResumeRankerCrew.kickoff, the repair of a scoring response.             *)
(* tier: the tier whose result the repair used (1 direct parse, 2 complete *)
(* objects, 3 separate fields, 0 none); ran: the tiers that were executed. *)
(***************************************************************************)
EmptyScores == DumpsScores(<<>>)

KickoffRepair(raw_text) ==
    LET parsed == Loads(raw_text)
        matches == FindFull(raw_text, 1)
        crits == FindCriteria(raw_text, 1)
        scs == FindScores(raw_text, 1)
    IN  IF parsed.ok
        THEN IF parsed.val.k # "dict" \/ ~HasKey(parsed.val, "scores")
             THEN [result |-> EmptyScores, tier |-> 0, ran |-> {1}]
             ELSE [result |-> raw_text, tier |-> 1, ran |-> {1}]
        ELSE IF matches # <<>>
             THEN [result |-> DumpsScores(matches), tier |-> 2, ran |-> {1, 2}]
        ELSE IF crits # <<>> /\ scs # <<>>
             THEN [result |-> DumpsScores(PairUp(crits, scs,
                                  "Extracted from partial response")),
                   tier |-> 3, ran |-> {1, 2, 3}]
        ELSE [result |-> EmptyScores, tier |-> 0, ran |-> {1, 2, 3}]

(***************************************************************************)
(* score_resume_against_criteria, lines 59-147: json.loads of what kickoff *)
(* returned and, on JSONDecodeError, the tiers of recovery.  The result is *)
(* result_dict; tier is the tier whose result is used (0: none found).     *)
(***************************************************************************)
ObjVal(o) ==
    JDict(<< Member("criterion", JStr(o.criterion)),
             Member("score", JInt(o.score)),
             Member("justification", JStr(o.justification)) >>)

ScoresDict(objs) ==
    JDict(<< Member("scores", JList([i \in 1..Len(objs) |-> ObjVal(objs[i])])) >>)

\* lines 76-93: duplicates of a criterion are skipped, the first is kept
RECURSIVE UniqueCriteria(_, _, _)
UniqueCriteria(matches, i, unique_criteria) ==
    IF i > Len(matches) THEN <<>>
    ELSE IF matches[i].criterion \in unique_criteria
         THEN UniqueCriteria(matches, i + 1, unique_criteria)
    ELSE <<matches[i]>>
         \o UniqueCriteria(matches, i + 1, unique_criteria \cup {matches[i].criterion})

\* lines 125-143: the numbers paired with the canonical criteria in order
NumericPairs(number_matches, criteria) ==
    [i \in 1..Min(Len(number_matches), Len(criteria)) |->
        ScoreObj(criteria[i],
                 IF number_matches[i] > MaxScore THEN MaxScore ELSE number_matches[i],
                 "Extracted from numeric values in response")]

\* faulty variant: the pattern tiers also run on a parsed text whose `scores` is empty
ParseResultRescan(result_str, criteria) ==
    LET parsed == Loads(result_str)
        matches == FindFull(result_str, 1)
        criteria_matches == FindCriteria(result_str, 1)
        score_matches == FindScores(result_str, 1)
        number_matches == FindNumbers(result_str, 1)
    IN  IF parsed.ok /\ parsed.val # ScoresDict(<<>>)
        THEN [result_dict |-> parsed.val, tier |-> 1, ran |-> {1}]
        ELSE IF matches # <<>>
             THEN [result_dict |-> ScoresDict(UniqueCriteria(matches, 1, {})),
                   tier |-> 2, ran |-> {1, 2}]
        ELSE IF criteria_matches # <<>> \/ score_matches # <<>>
             THEN [result_dict |-> ScoresDict(PairUp(criteria_matches, score_matches,
                                       "Recovered from partial response")),
                   tier |-> 3, ran |-> {1, 2, 3}]
        ELSE IF number_matches # <<>> /\ Len(criteria) > 0
             THEN [result_dict |-> ScoresDict(NumericPairs(number_matches, criteria)),
                   tier |-> 4, ran |-> {1, 2, 3, 4}]
        ELSE [result_dict |-> ScoresDict(<<>>), tier |-> 0, ran |-> {1, 2, 3, 4}]

ParseResult(result_str, criteria) ==
    LET parsed == Loads(result_str)
        matches == FindFull(result_str, 1)
        criteria_matches == FindCriteria(result_str, 1)
        score_matches == FindScores(result_str, 1)
        number_matches == FindNumbers(result_str, 1)
    IN  IF parsed.ok
        THEN [result_dict |-> parsed.val, tier |-> 1, ran |-> {1}]
        ELSE IF matches # <<>>
             THEN [result_dict |-> ScoresDict(UniqueCriteria(matches, 1, {})),
                   tier |-> 2, ran |-> {1, 2}]
        ELSE IF criteria_matches # <<>> \/ score_matches # <<>>
             THEN [result_dict |-> ScoresDict(PairUp(criteria_matches, score_matches,
                                       "Recovered from partial response")),
                   tier |-> 3, ran |-> {1, 2, 3}]
        ELSE IF number_matches # <<>> /\ Len(criteria) > 0
             THEN [result_dict |-> ScoresDict(NumericPairs(number_matches, criteria)),
                   tier |-> 4, ran |-> {1, 2, 3, 4}]
        ELSE [result_dict |-> ScoresDict(<<>>), tier |-> 0, ran |-> {1, 2, 3, 4}]

(***************************************************************************)
(* score_resume_against_criteria, lines 149-189: normalisation.  A Python  *)
(* exception anywhere in it is caught at line 184 and gives the default    *)
(* scores.  exc = TRUE: an exception was raised.                           *)
(***************************************************************************)
\* the strings of the model that hold both words "criterion" and "score"
BothWords == "criterion and score"

\* `k in s` for strings: k is a substring of s
Contains(s, k) == s = k \/ (s = BothWords /\ k \in {"criterion", "score"})

\* bool(v): the truth value of a Python value
Truthy(v) ==
    CASE v.k = "int" -> v.n # 0
      [] v.k = "float" -> v.n # 0 \/ v.f # 0
      [] v.k = "str" -> v.s # ""
      [] v.k = "list" -> v.items # <<>>
      [] v.k = "dict" -> v.members # <<>>
      [] v.k = "null" -> FALSE
      [] OTHER -> TRUE

\* faulty variant: line 160 tests the values (`score_obj.get(k)`) instead of the keys
InTruthy(k, v) ==
    CASE v.k = "dict" -> [ok |-> TRUE, val |-> HasKey(v, k) /\ Truthy(Get(v, k))]
      [] v.k = "str" -> [ok |-> TRUE, val |-> Contains(v.s, k)]
      [] v.k = "list" -> [ok |-> TRUE,
                          val |-> \E i \in 1..Len(v.items) :
                                     v.items[i].k = "str" /\ v.items[i].s = k]
      [] OTHER -> [ok |-> FALSE, val |-> FALSE]

\* `k in score_obj` (line 160); ok = FALSE is TypeError (int, float, None)
In(k, v) ==
    CASE v.k = "dict" -> [ok |-> TRUE, val |-> HasKey(v, k)]
      [] v.k = "str" -> [ok |-> TRUE, val |-> Contains(v.s, k)]
      [] v.k = "list" -> [ok |-> TRUE,
                          val |-> \E i \in 1..Len(v.items) :
                                     v.items[i].k = "str" /\ v.items[i].s = k]
      [] OTHER -> [ok |-> FALSE, val |-> FALSE]

\* `for score_obj in result_dict['scores']` (line 159): a list gives its
\* items, a dict its keys; a string gives its characters, each of which fails
\* the test of line 160 and is skipped; anything else is TypeError
Iterate(v) ==
    CASE v.k = "list" -> [ok |-> TRUE, items |-> v.items]
      [] v.k = "dict" -> [ok |-> TRUE,
                          items |-> [i \in 1..Len(v.members) |-> JStr(v.members[i].key)]]
      [] v.k = "str" -> [ok |-> TRUE, items |-> <<>>]
      [] OTHER -> [ok |-> FALSE, items |-> <<>>]

\* faulty variant: an integer score is stored as it was read, out of range or not
StoredScoreUnclamped(score) ==
    CASE score.k = "int" -> [ok |-> TRUE, val |-> score.n]
      [] score.k = "float" -> [ok |-> TRUE, val |-> score.n]
      [] score.k = "nan" -> [ok |-> FALSE, val |-> 0]
      [] OTHER -> [ok |-> TRUE, val |-> 0]

\* lines 168-172: the score as stored; ok = FALSE: int(NaN) raises ValueError
StoredScore(score) ==
    CASE score.k = "int" -> [ok |-> TRUE, val |-> Max(0, Min(MaxScore, score.n))]
      [] score.k = "float" -> [ok |-> TRUE, val |-> Max(0, Min(MaxScore, score.n))]
      [] score.k = "nan" -> [ok |-> FALSE, val |-> 0]
      [] OTHER -> [ok |-> TRUE, val |-> 0]

\* a dict key: lists and dicts are unhashable (TypeError at line 172)
Hashable(v) == v.k \notin {"list", "dict"}
KeyOf(v) ==
    CASE v.k = "str" -> v.s
      [] v.k = "null" -> "None"
      [] OTHER -> ToString(v.n)

\* scores[criterion] = value
Put(scores, criterion, value) == (criterion :> value) @@ scores

RECURSIVE ProcessScores(_, _, _)
ProcessScores(items, i, scores) ==
    IF i > Len(items) THEN [exc |-> FALSE, scores |-> scores]
    ELSE LET score_obj == items[i]
             hasC == In("criterion", score_obj)
             hasS == In("score", score_obj)
         IN  IF ~hasC.ok THEN [exc |-> TRUE, scores |-> scores]
             ELSE IF ~hasC.val \/ ~hasS.val THEN ProcessScores(items, i + 1, scores)
             ELSE IF score_obj.k # "dict" THEN [exc |-> TRUE, scores |-> scores]
             ELSE LET criterion == Get(score_obj, "criterion")
                      stored == StoredScore(Get(score_obj, "score"))
                  IN  IF ~stored.ok \/ ~Hashable(criterion)
                      THEN [exc |-> TRUE, scores |-> scores]
                      ELSE ProcessScores(items, i + 1,
                                         Put(scores, KeyOf(criterion), stored.val))

Range(seq) == {seq[i] : i \in 1..Len(seq)}

\* faulty variant: only the canonical criteria are returned, invented ones are dropped
FillMissingCanonicalOnly(scores, criteria) ==
    [c \in Range(criteria) |-> IF c \in DOMAIN scores THEN scores[c] ELSE 0]

\* faulty variant: the canonical criteria without a score are not filled in
FillMissingNothing(scores, criteria) == scores

\* lines 174-179: every canonical criterion without a score gets 0
FillMissing(scores, criteria) ==
    [c \in DOMAIN scores \cup Range(criteria) |->
        IF c \in DOMAIN scores THEN scores[c] ELSE 0]

\* line 189
DefaultScores(criteria) == [c \in Range(criteria) |-> 0]

\* lines 149-182; exc = TRUE: a Python exception left the loop
NormalizeScores(result_dict, criteria) ==
    LET scores_value ==
            IF result_dict.k # "dict" \/ ~HasKey(result_dict, "scores")
            THEN JList(<<>>)
            ELSE Get(result_dict, "scores")
        it == Iterate(scores_value)
        done == ProcessScores(it.items, 1, <<>>)
    IN  IF ~it.ok \/ done.exc
        THEN [exc |-> TRUE, scores |-> <<>>]
        ELSE [exc |-> FALSE, scores |-> FillMissing(done.scores, criteria)]

\* faulty variant: the handler of line 184 is missing, the exception leaves the try
ProcessResponseUncaught(result_str, criteria) ==
    LET p == ParseResult(result_str, criteria)
        n == NormalizeScores(p.result_dict, criteria)
    IN  [raised |-> n.exc, exc |-> n.exc, parse |-> p, scores |-> n.scores]

\* lines 48-189: the inner try and its handler (`except Exception`, line 184).
\* raised = TRUE would be an exception leaving the inner try.
ProcessResponse(result_str, criteria) ==
    LET p == ParseResult(result_str, criteria)
        n == NormalizeScores(p.result_dict, criteria)
    IN  IF n.exc
        THEN [raised |-> FALSE, exc |-> TRUE, parse |-> p,
              scores |-> DefaultScores(criteria)]
        ELSE [raised |-> FALSE, exc |-> FALSE, parse |-> p, scores |-> n.scores]

(***************************************************************************)
(* The agent responses of the model: up to MaxFrags fragments, separated   *)
(* by commas, inside one of the wrappers.                                  *)
(***************************************************************************)
\* { "criterion": c, "score": <score token>, "justification": "ok" }
FullObject(c, scoreTok) ==
    << LB, Str("criterion"), COLON, Str(c), COMMA, Str("score"), COLON, scoreTok,
       COMMA, Str("justification"), COLON, Str("ok"), RB >>

\* { "criterion": c, "score": <score token> }
ShortObject(cTok, scoreTok) ==
    << LB, Str("criterion"), COLON >> \o cTok
    \o << COMMA, Str("score"), COLON, scoreTok, RB >>

Fragments ==
    { FullObject("X", Num(7)), FullObject("X", Num(2)),
      FullObject("Y", Num(3)), FullObject("Z", Num(4)),
      FullObject("X", Neg(3)), FullObject("Y", Flt(3, 7)),
      ShortObject(<<Str("Z")>>, Num(9)),
      ShortObject(<<Str("Y")>>, Str("high")),
      ShortObject(<<Str("Y")>>, NANT),
      ShortObject(<<LS, Str("X"), RS>>, Num(1)),
      << LB, Str("criterion"), COLON, Str("Y"), RB >>,
      << Str("criterion"), COLON, Str("X") >>,
      << Str("score"), COLON, Num(4) >>,
      << Num(6) >>,
      << Word("text") >>,
      << Str("abc") >>,
      << Str(BothWords) >> }

FragSeqs == UNION { [1..n -> Fragments] : n \in 0..MaxFrags }

RECURSIVE Join(_)
Join(fs) ==
    IF fs = <<>> THEN <<>>
    ELSE IF Len(fs) = 1 THEN fs[1]
    ELSE fs[1] \o <<COMMA>> \o Join(Tail(fs))

Wrappers ==
    { [pre |-> <<LB, Str("scores"), COLON, LS>>, post |-> <<RS, RB>>],
      [pre |-> <<LB, Str("scores"), COLON>>, post |-> <<RB>>],
      [pre |-> <<LB, Str("result"), COLON, LS>>, post |-> <<RS, RB>>],
      [pre |-> <<LS>>, post |-> <<RS>>],
      [pre |-> <<>>, post |-> <<>>],
      [pre |-> <<LB, Str("scores"), COLON, LS>>, post |-> <<>>] }

Texts == { w.pre \o Join(fs) \o w.post : w \in Wrappers, fs \in FragSeqs }

\* the canonical criteria lists and resume texts a caller passes
CriteriaLists == { <<>>, <<"X">>, <<"X", "Y">>, <<"Y", "X">> }
ResumeContents == { "", " ", "resume text" }

\* resume_content.strip() == ""
Blank(text) == text \in { "", " " }

\* faulty variant: the adapter does not validate its arguments
InvalidScoringInputUnchecked(resume_content, criteria) == FALSE

\* resume_scorer.py lines 25-31: empty resume text or empty criteria list
InvalidScoringInput(resume_content, criteria) ==
    Blank(resume_content) \/ Len(criteria) = 0

(***************************************************************************)
(* State.                                                                  *)
(***************************************************************************)
VARIABLES
    pc,              \* "idle", "invoked" (inside crew().kickoff()), "returned", "raised"
    resume_content,  \* argument of score_resume_against_criteria
    criteria,        \* argument of score_resume_against_criteria
    raw,             \* the text the agent returned
    kickoff,         \* what ResumeRankerCrew.kickoff made of it
    parse,           \* result_dict and the tier that produced it
    exc,             \* normalisation raised (caught at line 184)
    scores,          \* the returned ScoreSet
    error            \* the exception raised to the caller, "" if none

\* the agent capability, counted over the adapter calls
VARIABLES
    agent_calls,     \* number of times crew().kickoff() was entered
    agent_failures   \* number of times it raised

\* extract_criteria_from_text (criteria_extractor.py)
VARIABLES
    crit_pc,         \* "idle", "invoked", "returned", "raised"
    job_description, \* argument
    crit_raw,        \* the text the agent returned
    criteria_list,   \* the returned list
    crit_error       \* the exception raised to the caller, "" if none

\* extract_candidate_name (name_extractor.py)
VARIABLES
    name_pc,         \* "idle", "invoked", "returned"
    file_name,       \* argument: a string or None
    name_raw,        \* the text the agent returned
    name_result      \* the returned {name, confidence, source}

\* async_retry (crew_manager.py)
VARIABLES
    retry_pc,        \* "idle", "loop", "trying", "sleeping", "returned", "raised"
    func,            \* the wrapped function and its arguments
    max_retries,     \* decorator argument
    delay,           \* decorator argument
    attempt,         \* loop variable of line 25
    invocations,     \* one entry per run of the wrapped body: its outcome
    sleeps,          \* the delays passed to asyncio.sleep, in order
    retry_result     \* what the wrapper returned or raised

\* the endpoints /all, /extract-criteria and /score-resumes (routes)
VARIABLES
    endpoint,        \* the endpoint of the request, "" before it
    route_pc,        \* "idle", "criteria", "loop", "name", "score", "done"
    route_criteria,  \* criteria_list of the route
    resumes,         \* number of uploaded resume files
    file_idx,        \* position of the loop of score_resumes, from 1
    content,         \* text of the resume being processed
    candidate_name,  \* its candidate name
    failed_files,    \* the resumes whose processing raised an exception
    route_error,     \* the exception that ended the request, "" without one
    results,         \* the rows appended so far
    csv,             \* the rows of the CSV
    status,          \* HTTP status of the response, 0 before it
    in_flight,       \* the agent invocations that have started and not ended
    completed        \* the agent invocations that have ended

\* ResumeRankerCrew instances of requests served at the same time
VARIABLES
    crew_inputs,     \* the keys of crew_inputs of every instance
    requests         \* every request: its kind, position, instance, outcome

agentVars == << agent_calls, agent_failures >>
scoringVars == << pc, resume_content, criteria, raw, kickoff, parse, exc, scores, error >>
criteriaVars == << crit_pc, job_description, crit_raw, criteria_list, crit_error >>
nameVars == << name_pc, file_name, name_raw, name_result >>
retryVars == << retry_pc, func, max_retries, delay, attempt, invocations, sleeps,
                retry_result >>

routeVars == << endpoint, route_pc, route_criteria, resumes, file_idx, content,
                candidate_name, failed_files, route_error, results, csv, status,
                in_flight, completed >>
crewVars == << crew_inputs, requests >>

vars == << scoringVars, agentVars, criteriaVars, nameVars, retryVars, routeVars,
           crewVars >>

NoKickoff == [result |-> <<>>, tier |-> 0, ran |-> {}]
NoParse == [result_dict |-> JNull, tier |-> 0, ran |-> {}]
NoNameResult == [name |-> JNull, confidence |-> JNull, source |-> JNull]
NoFunc == [name |-> "", text |-> "", criteria |-> <<>>]
NoRetryResult == [kind |-> "", invocation |-> 0]

\* the two adapter calls served at the same time
Requests == { 1, 2 }

\* a request before its adapter call
NoRequest ==
    [kind |-> "", pc |-> "idle", instance |-> 0, tasks |-> <<>>, raw |-> <<>>,
     result |-> <<>>]

Init ==
    /\ pc = "idle"
    /\ resume_content = ""
    /\ criteria = <<>>
    /\ raw = <<>>
    /\ kickoff = NoKickoff
    /\ parse = NoParse
    /\ exc = FALSE
    /\ scores = <<>>
    /\ error = ""
    /\ agent_calls = 0
    /\ agent_failures = 0
    /\ crit_pc = "idle"
    /\ job_description = ""
    /\ crit_raw = <<>>
    /\ criteria_list = <<>>
    /\ crit_error = ""
    /\ name_pc = "idle"
    /\ file_name = JNull
    /\ name_raw = <<>>
    /\ name_result = NoNameResult
    /\ retry_pc = "idle"
    /\ func = NoFunc
    /\ max_retries = 0
    /\ delay = 0
    /\ attempt = 0
    /\ invocations = <<>>
    /\ sleeps = <<>>
    /\ retry_result = NoRetryResult
    /\ endpoint = ""
    /\ route_pc = "idle"
    /\ route_criteria = <<>>
    /\ resumes = 0
    /\ file_idx = 0
    /\ content = ""
    /\ candidate_name = ""
    /\ failed_files = {}
    /\ route_error = ""
    /\ results = <<>>
    /\ csv = <<>>
    /\ status = 0
    /\ in_flight = {}
    /\ completed = {}
    /\ crew_inputs = [i \in Requests |-> {}]
    /\ requests = [r \in Requests |-> NoRequest]

\* lines 25-44: the inputs are validated, then the crew is started
ScoreResumeCall ==
    /\ pc = "idle"
    /\ crit_pc = "idle"
    /\ \E rc \in ResumeContents, cl \in CriteriaLists :
          /\ resume_content' = rc
          /\ criteria' = cl
          /\ IF InvalidScoringInput(rc, cl)
             THEN pc' = "raised" /\ error' = "ValueError"
                  /\ agent_calls' = agent_calls
             ELSE pc' = "invoked" /\ error' = ""
                  /\ agent_calls' = agent_calls + 1
    /\ UNCHANGED << raw, kickoff, parse, exc, scores >>
    /\ UNCHANGED << agent_failures, criteriaVars, nameVars, retryVars, routeVars, crewVars >>

\* crew().kickoff() returns a text: kickoff repairs it (crew lines 215-294),
\* score_resume_against_criteria parses and normalises it (lines 48-189); an
\* exception leaving the inner try is wrapped in a ValueError (lines 191-193)
CrewReturns ==
    /\ pc = "invoked"
    /\ \E text \in Texts :
          LET k == KickoffRepair(text)
              r == ProcessResponse(k.result, criteria)
          IN  /\ raw' = text
              /\ kickoff' = k
              /\ parse' = r.parse
              /\ exc' = r.exc
              /\ IF r.raised
                 THEN pc' = "raised" /\ error' = "ValueError" /\ scores' = <<>>
                 ELSE pc' = "returned" /\ error' = "" /\ scores' = r.scores
    /\ UNCHANGED << resume_content, criteria >>
    /\ UNCHANGED << agentVars, criteriaVars, nameVars, retryVars, routeVars, crewVars >>

\* crew().kickoff() raises: lines 191-193 wrap the error in a ValueError
CrewRaises ==
    /\ pc = "invoked"
    /\ pc' = "raised"
    /\ error' = "ValueError"
    /\ agent_failures' = agent_failures + 1
    /\ UNCHANGED << resume_content, criteria, raw, kickoff, parse, exc, scores >>
    /\ UNCHANGED << agent_calls, criteriaVars, nameVars, retryVars, routeVars, crewVars >>

Next == ScoreResumeCall \/ CrewReturns \/ CrewRaises

Spec == Init /\ [][Next]_vars

(***************************************************************************)
(* What the claims speak of.                                               *)
(***************************************************************************)
\* the agent invocation has returned a text
AgentReturned == kickoff.ran # {}

\* the elements of the `scores` array that normalisation is given
RecoveredItems ==
    IF parse.result_dict.k = "dict" /\ HasKey(parse.result_dict, "scores")
       /\ Get(parse.result_dict, "scores").k = "list"
    THEN Get(parse.result_dict, "scores").items
    ELSE <<>>

\* an element that is an object with a `criterion` and a `score`
HasBothKeys(item) ==
    item.k = "dict" /\ HasKey(item, "criterion") /\ HasKey(item, "score")

\* a score object: criterion a string, score an integer
IsScoreObject(item) ==
    /\ HasBothKeys(item)
    /\ Get(item, "criterion").k = "str"
    /\ Get(item, "score").k = "int"

CriterionOf(item) == Get(item, "criterion").s
ScoreOf(item) == Get(item, "score").n

ClampToRange(n) == IF n < 0 THEN 0 ELSE IF n > MaxScore THEN MaxScore ELSE n

\* the criteria of the recovered objects, whatever the type of their score
RecoveredCriteria ==
    { CriterionOf(RecoveredItems[i]) :
        i \in { j \in 1..Len(RecoveredItems) :
                  /\ HasBothKeys(RecoveredItems[j])
                  /\ Get(RecoveredItems[j], "criterion").k = "str" } }

ZeroScores == [c \in Range(criteria) |-> 0]

(***************************************************************************)
(* C1: once the agent invocation has returned, score_resume_against_       *)
(* criteria returns a ScoreSet and never raises, whatever the text; when   *)
(* nothing was recovered or normalisation failed, it returns every         *)
(* canonical criterion mapped to 0.                                        *)
(***************************************************************************)
C1_NeverRaises ==
    AgentReturned =>
        /\ pc = "returned"
        /\ error = ""
        /\ DOMAIN scores \subseteq STRING
        /\ \A c \in DOMAIN scores : scores[c] \in Int
        /\ (exc \/ RecoveredItems = <<>>) => scores = ZeroScores

\* witness: a response whose `scores` array made normalisation raise
C1_Witness ==
    /\ pc = "returned"
    /\ exc
    /\ RecoveredItems # <<>>
    /\ criteria = <<"X", "Y">>
    /\ scores = ZeroScores

(***************************************************************************)
(* C2: every score of the returned ScoreSet is an integer in 0..5; a       *)
(* recovered score below 0 is returned as 0, one above 5 as 5.             *)
(***************************************************************************)
\* item i is the one whose score is stored last for its criterion
StoredLast(i) ==
    \A j \in (i + 1)..Len(RecoveredItems) :
        HasBothKeys(RecoveredItems[j]) =>
            Get(RecoveredItems[j], "criterion") # Get(RecoveredItems[i], "criterion")

FirstOccurrence(i) ==
    /\ IsScoreObject(RecoveredItems[i])
    /\ \A j \in 1..(i - 1) :
          IsScoreObject(RecoveredItems[j]) =>
              CriterionOf(RecoveredItems[j]) # CriterionOf(RecoveredItems[i])

C3_FirstOccurrenceWins ==
    (pc = "returned" /\ ~exc) =>
        \A i \in 1..Len(RecoveredItems) :
            FirstOccurrence(i) =>
                scores[CriterionOf(RecoveredItems[i])]
                    = ClampToRange(ScoreOf(RecoveredItems[i]))

(***************************************************************************)
(* C4: the returned ScoreSet holds every canonical criterion (a mapping:   *)
(* once), and one that is absent from the recovered data has score 0.      *)
(***************************************************************************)
C4_CanonicalPresent ==
    pc = "returned" =>
        \A c \in Range(criteria) :
            /\ c \in DOMAIN scores
            /\ (exc \/ c \notin RecoveredCriteria) => scores[c] = 0

\* witness: one canonical criterion was scored, the other one is missing
C4_Witness ==
    /\ pc = "returned"
    /\ ~exc
    /\ \E c, d \in Range(criteria) :
          /\ c \notin RecoveredCriteria /\ scores[c] = 0
          /\ d \in RecoveredCriteria /\ scores[d] > 0

(***************************************************************************)
(* C5: a recovered score object whose criterion is not canonical (and is   *)
(* the only object of that criterion) is kept in the returned ScoreSet     *)
(* with its clamped score.                                                 *)
(***************************************************************************)
OnlyOccurrence(i) ==
    \A j \in 1..Len(RecoveredItems) :
        (j # i /\ HasBothKeys(RecoveredItems[j])) =>
            Get(RecoveredItems[j], "criterion") # Get(RecoveredItems[i], "criterion")

C5_ExtraCriterionKept ==
    pc = "returned" =>
        \A i \in 1..Len(RecoveredItems) :
            (/\ IsScoreObject(RecoveredItems[i])
             /\ OnlyOccurrence(i)
             /\ CriterionOf(RecoveredItems[i]) \notin Range(criteria)) =>
                /\ CriterionOf(RecoveredItems[i]) \in DOMAIN scores
                /\ scores[CriterionOf(RecoveredItems[i])]
                       = ClampToRange(ScoreOf(RecoveredItems[i]))

(***************************************************************************)
(* C6: the key set of the returned ScoreSet equals the set of canonical    *)
(* criteria (invented criteria are dropped).                               *)
(***************************************************************************)
C6_KeysEqualCanonical ==
    pc = "returned" => DOMAIN scores = Range(criteria)

\* C6 as amended: the key set is the canonical criteria together with every
\* criterion of a recovered score object (invented criteria are kept); it is
\* the canonical set alone when the default structure is returned.
C6_KeysCanonicalAndRecovered ==
    pc = "returned" =>
        DOMAIN scores = Range(criteria) \cup (IF exc THEN {} ELSE RecoveredCriteria)

\* witness: an invented criterion is among the returned keys
C6_Witness ==
    /\ pc = "returned"
    /\ ~exc
    /\ \E c \in DOMAIN scores : c \notin Range(criteria) /\ scores[c] > 0

(***************************************************************************)
(* C7: whenever the text is not parseable as an object with a `scores`     *)
(* field (also when it is valid JSON of another shape), the tier-2 scan    *)
(* for complete objects is applied to it and its matches are used.         *)
(***************************************************************************)
Tier1Failed(text) ==
    LET parsed == Loads(text)
    IN  ~(parsed.ok /\ parsed.val.k = "dict" /\ HasKey(parsed.val, "scores"))

C7_PatternScanWheneverTier1Fails ==
    (pc = "returned" /\ Tier1Failed(raw)) =>
        /\ 2 \in kickoff.ran
        /\ LET matches == FindFull(raw, 1)
           IN  \A i \in 1..Len(matches) :
                   /\ matches[i].criterion \in DOMAIN scores
                   /\ scores[matches[i].criterion]
                          \in { ClampToRange(matches[j].score) :
                                  j \in { m \in 1..Len(matches) :
                                            matches[m].criterion = matches[i].criterion } }

(***************************************************************************)
(* C8: when tiers 1 to 3 recover no pair and the text holds an integer,    *)
(* the first min(#numbers, #canonical) integers are paired with the        *)
(* canonical criteria in order, clamped into 0..5.                         *)
(***************************************************************************)
NoPairRecovered(text) ==
    /\ ~Loads(text).ok
    /\ FindFull(text, 1) = <<>>
    /\ Min(Len(FindCriteria(text, 1)), Len(FindScores(text, 1))) = 0

C8_NumericScavenging ==
    (pc = "returned" /\ NoPairRecovered(raw) /\ FindNumbers(raw, 1) # <<>>) =>
        LET numbers == FindNumbers(raw, 1)
        IN  \A i \in 1..Min(Len(numbers), Len(criteria)) :
                scores[criteria[i]] = ClampToRange(numbers[i])

(***************************************************************************)
(* C9: recovery is a strict waterfall, in kickoff's repair and in          *)
(* score_resume_against_criteria: the pattern tiers run only when the text *)
(* did not parse, tier 3 only when tier 2 matched nothing, tier 4 only     *)
(* when tier 3 produced no pair; the tier used is the first non-empty one. *)
(***************************************************************************)
Waterfall(text, tier, ran) ==
    LET pairs == Min(Len(FindCriteria(text, 1)), Len(FindScores(text, 1)))
    IN  /\ 1 \in ran
        /\ (2 \in ran \/ tier >= 2) => ~Loads(text).ok
        /\ (3 \in ran \/ tier >= 3) => (2 \in ran /\ FindFull(text, 1) = <<>>)
        /\ (4 \in ran \/ tier >= 4) => (3 \in ran /\ pairs = 0)

\* the tiers of score_resume_against_criteria applied to the agent's own text
\* (behind kickoff they always get a text that parses)
DirectTiers == ParseResult(raw, criteria)

C9_StrictWaterfall ==
    pc = "returned" =>
        /\ Waterfall(raw, kickoff.tier, kickoff.ran)
        /\ Waterfall(kickoff.result, parse.tier, parse.ran)
        /\ Waterfall(raw, DirectTiers.tier, DirectTiers.ran)

\* witness: tier 3 was used after the parse failed and tier 2 matched nothing
C9_Witness ==
    /\ pc = "returned"
    /\ kickoff.tier = 3
    /\ DirectTiers.tier = 3
    /\ ~Loads(raw).ok
    /\ FindFull(raw, 1) = <<>>
    /\ RecoveredItems # <<>>

(***************************************************************************)
(* C10: on a valid JSON object with a `scores` array, sanitizing is        *)
(* idempotent: the returned ScoreSet, written back as a `scores` array and *)
(* sanitized again with the same canonical list, is returned unchanged.    *)
(***************************************************************************)
RECURSIVE ScoreSetItems(_, _)
ScoreSetItems(sc, keys) ==
    IF keys = {} THEN <<>>
    ELSE LET c == CHOOSE k \in keys : TRUE
         IN  <<ScoreObj(c, sc[c], "")>> \o ScoreSetItems(sc, keys \ {c})

\* {"scores": [{"criterion": c, "score": sc[c], "justification": ""}, ...]}
Serialise(sc) == DumpsScores(ScoreSetItems(sc, DOMAIN sc))

\* the scoring path on a response text
Sanitize(text, canonical) ==
    ProcessResponse(KickoffRepair(text).result, canonical).scores

C10_Idempotent ==
    (pc = "returned" /\ kickoff.tier = 1) =>
        Sanitize(Serialise(scores), criteria) = scores

\* witness: a tier-1 response that normalisation had to change
C10_Witness ==
    /\ pc = "returned"
    /\ kickoff.tier = 1
    /\ ~exc
    /\ \E i \in 1..Len(RecoveredItems) :
          /\ IsScoreObject(RecoveredItems[i])
          /\ ScoreOf(RecoveredItems[i]) > MaxScore
          /\ CriterionOf(RecoveredItems[i]) \notin Range(criteria)
    /\ Sanitize(Serialise(scores), criteria) = scores

(***************************************************************************)
(* Name extraction (name_extractor.py).  Python strings are TLA+ strings;  *)
(* str.strip, str.lower, str.split, len and `in` work on their characters. *)
(* White space is the blank.                                               *)
(***************************************************************************)
CharAt(s, i) == SubSeq(s, i, i)
Rest(s) == SubSeq(s, 2, Len(s))

UpperCase == "ABCDEFGHIJKLMNOPQRSTUVWXYZ"
LowerCase == "abcdefghijklmnopqrstuvwxyz"

LowerChar(c) ==
    IF \E i \in 1..Len(UpperCase) : CharAt(UpperCase, i) = c
    THEN CharAt(LowerCase, CHOOSE i \in 1..Len(UpperCase) : CharAt(UpperCase, i) = c)
    ELSE c

\* str.lower()
RECURSIVE Lower(_)
Lower(s) == IF Len(s) = 0 THEN "" ELSE LowerChar(CharAt(s, 1)) \o Lower(Rest(s))

RECURSIVE LStrip(_)
LStrip(s) == IF Len(s) > 0 /\ CharAt(s, 1) = " " THEN LStrip(Rest(s)) ELSE s

RECURSIVE RStrip(_)
RStrip(s) ==
    IF Len(s) > 0 /\ CharAt(s, Len(s)) = " "
    THEN RStrip(SubSeq(s, 1, Len(s) - 1))
    ELSE s

\* str.strip()
Strip(s) == RStrip(LStrip(s))

\* `marker in s` for strings
Substring(marker, s) ==
    \E i \in 1..(Len(s) - Len(marker) + 1) :
        SubSeq(s, i, i + Len(marker) - 1) = marker

\* len(name.split()): the maximal runs of non-blank characters
name_parts(name) ==
    Cardinality({ i \in 1..Len(name) :
                    /\ CharAt(name, i) # " "
                    /\ (i = 1 \/ CharAt(name, i - 1) = " ") })

\* lines 72-84
example_names ==
    { "emily chen", "john smith", "john doe", "jane doe", "emily j. miller",
      "james wilson", "sarah johnson", "[actual extracted name]", "your name",
      "candidate name", "resume" }

\* line 98
Markers == { "[", "]", "{", "}", "<", ">", "example" }

\* line 120
MaxNameLen == 50
\* line 132
MinConfidence == 70
\* line 138
FallbackConfidence == 100

\* type(v).__name__
TypeName(v) ==
    CASE v.k = "str" -> "str"
      [] v.k = "int" -> "int"
      [] v.k \in {"float", "nan"} -> "float"
      [] v.k = "null" -> "NoneType"
      [] v.k = "list" -> "list"
      [] OTHER -> "dict"

\* `confidence < 70` (line 132); ok = FALSE is TypeError.  Floats of the
\* model are n + f/10 with n >= 0; NaN compares false.
LessThan(confidence, bound) ==
    CASE confidence.k = "int" -> [ok |-> TRUE, val |-> confidence.n < bound]
      [] confidence.k = "float" -> [ok |-> TRUE, val |-> confidence.n < bound]
      [] confidence.k = "nan" -> [ok |-> TRUE, val |-> FALSE]
      [] OTHER -> [ok |-> FALSE, val |-> FALSE]

NameResult(name, confidence, source) ==
    [name |-> name, confidence |-> confidence, source |-> source]

\* a rejection: lines 60-64, 69, 89-93, 103-107, 113-117, 122, 151
Rejected(fname, source) == NameResult(fname, JInt(0), JStr(source))

\* line 155: the handler of every other exception
ErrorResult(fname, message) ==
    NameResult(fname, JInt(0), JStr("error: " \o message))

\* faulty variant: the length of the name is tested before its structure, and
\* the confidence before both
ValidateNameReordered(name, confidence, source, fname) ==
    LET low == LessThan(confidence, MinConfidence) IN
    IF Lower(name) = "emily chen" THEN Rejected(fname, "forbidden_example_name")
    ELSE IF Len(name) = 0 THEN Rejected(fname, "empty_result")
    ELSE IF Lower(name) \in example_names
         THEN Rejected(fname, "example_name_rejected")
    ELSE IF \E marker \in Markers : Substring(marker, Lower(name))
         THEN Rejected(fname, "placeholder_rejected")
    ELSE IF ~low.ok
         THEN ErrorResult(fname, "'<' not supported between instances of '"
                                    \o TypeName(confidence) \o "' and 'int'")
    ELSE IF low.val /\ Truthy(fname)
         THEN NameResult(fname, JInt(FallbackConfidence), JStr("filename_fallback"))
    ELSE IF Len(name) > MaxNameLen THEN Rejected(fname, "name_too_long")
    ELSE IF name_parts(name) < 2 THEN Rejected(fname, "invalid_structure")
    ELSE NameResult(JStr(name), confidence,
                    IF Truthy(source) THEN source ELSE JStr("content_extraction"))

\* lines 55-147: the chain of tests on the stripped name.  `confidence < 70`
\* raises TypeError for a confidence that is no number; line 155 handles it.
ValidateName(name, confidence, source, fname) ==
    LET low == LessThan(confidence, MinConfidence) IN
    IF Lower(name) = "emily chen" THEN Rejected(fname, "forbidden_example_name")
    ELSE IF Len(name) = 0 THEN Rejected(fname, "empty_result")
    ELSE IF Lower(name) \in example_names
         THEN Rejected(fname, "example_name_rejected")
    ELSE IF \E marker \in Markers : Substring(marker, Lower(name))
         THEN Rejected(fname, "placeholder_rejected")
    ELSE IF name_parts(name) < 2 THEN Rejected(fname, "invalid_structure")
    ELSE IF Len(name) > MaxNameLen THEN Rejected(fname, "name_too_long")
    ELSE IF ~low.ok
         THEN ErrorResult(fname, "'<' not supported between instances of '"
                                    \o TypeName(confidence) \o "' and 'int'")
    ELSE IF low.val /\ Truthy(fname)
         THEN NameResult(fname, JInt(FallbackConfidence), JStr("filename_fallback"))
    ELSE NameResult(JStr(name), confidence,
                    IF Truthy(source) THEN source ELSE JStr("content_extraction"))

\* result_dict.get(key, default)
GetOr(d, key, default) == IF HasKey(d, key) THEN Get(d, key) ELSE default

\* lines 49-155 for the text `result` that kickoff returned
ParseName(result, fname) ==
    LET loaded == Loads(result) IN
    IF ~loaded.ok THEN Rejected(fname, "parse_error")
    ELSE IF loaded.val.k # "dict"
         THEN ErrorResult(fname, "'" \o TypeName(loaded.val)
                                     \o "' object has no attribute 'get'")
    ELSE LET result_dict == loaded.val
             name == GetOr(result_dict, "name", JStr(""))
             confidence == GetOr(result_dict, "confidence", JInt(0))
             source == GetOr(result_dict, "source", JStr(""))
         IN  IF name.k # "str"
             THEN ErrorResult(fname, "'" \o TypeName(name)
                                         \o "' object has no attribute 'strip'")
             ELSE ValidateName(Strip(name.s), confidence, source, fname)

(***************************************************************************)
(* The responses of the name extraction specialist.                        *)
(***************************************************************************)
RECURSIVE Repeat(_, _)
Repeat(s, n) == IF n = 0 THEN "" ELSE s \o Repeat(s, n - 1)

\* two parts, MaxNameLen + 1 and MaxNameLen characters; one part
TooLongName == "Maria " \o Repeat("a", MaxNameLen - 5)
LongestName == "Maria " \o Repeat("a", MaxNameLen - 6)
TooLongWord == Repeat("a", MaxNameLen + 1)

ProposedNames ==
    { "Emily Chen", " emily chen ", "", "  ", "John Doe", "Resume",
      "[Actual Extracted Name]", "<Jane Roe>", "An Example Person", "Example",
      "Madonna", "Maria Garcia", " Maria Garcia ", TooLongName, LongestName,
      TooLongWord }

NameFields ==
    { <<>> } \cup { << Str("name"), COLON, Str(n) >> : n \in ProposedNames }
    \cup { << Str("name"), COLON, NULLT >>, << Str("name"), COLON, Num(7) >> }

ConfidenceFields ==
    { <<>> } \cup
    { << Str("confidence"), COLON, c >> :
         c \in { Num(95), Num(70), Num(69), Num(50), Num(150), Neg(5),
                 Flt(85, 5), NANT, Str("high"), NULLT } }

SourceFields ==
    { <<>> } \cup
    { << Str("source"), COLON, s >> :
         s \in { Str("header"), Str(""), Str("filename_fallback"),
                 Str("parse_error"), NULLT, Num(3) } }

RECURSIVE JoinFields(_)
JoinFields(fs) ==
    IF fs = <<>> THEN <<>>
    ELSE IF fs[1] = <<>> THEN JoinFields(Tail(fs))
    ELSE IF JoinFields(Tail(fs)) = <<>> THEN fs[1]
    ELSE fs[1] \o <<COMMA>> \o JoinFields(Tail(fs))

NameTexts ==
    { <<LB>> \o JoinFields(<<n, c, s>>) \o <<RB>> :
         n \in NameFields, c \in ConfidenceFields, s \in SourceFields }
    \cup { << LS, Str("Maria Garcia"), RS >>, << Str("Maria Garcia") >>,
           << Num(7) >>, << NULLT >>,
           << Word("The"), Word("candidate"), Word("is"), Word("Maria") >>,
           << LB, Str("name"), COLON, Str("Maria Garcia"), COMMA >> }

\* the file names a caller passes: None (the default), "", a name
FileNames == { JNull, JStr(""), JStr("resume_123.pdf") }

\* str(e) of the exceptions the crew raises
CrewErrors == { "", "rate limit exceeded" }

\* line 16: the call; lines 38-46: the crew is started
ExtractNameCall ==
    /\ name_pc = "idle"
    /\ \E fname \in FileNames : file_name' = fname
    /\ name_pc' = "invoked"
    /\ UNCHANGED << name_raw, name_result >>
    /\ UNCHANGED << scoringVars, agentVars, criteriaVars, retryVars, routeVars, crewVars >>

\* kickoff returns the text of the agent unchanged (crew line 216 is false
\* for extract_name_only); lines 49-155 make the result of it
NameCrewReturns ==
    /\ name_pc = "invoked"
    /\ \E text \in NameTexts :
          /\ name_raw' = text
          /\ name_result' = ParseName(text, file_name)
    /\ name_pc' = "returned"
    /\ UNCHANGED file_name
    /\ UNCHANGED << scoringVars, agentVars, criteriaVars, retryVars, routeVars, crewVars >>

\* ResumeRankerCrew() or kickoff raises: line 153-155
NameCrewRaises ==
    /\ name_pc = "invoked"
    /\ \E message \in CrewErrors : name_result' = ErrorResult(file_name, message)
    /\ name_pc' = "returned"
    /\ UNCHANGED << file_name, name_raw >>
    /\ UNCHANGED << scoringVars, agentVars, criteriaVars, retryVars, routeVars, crewVars >>

NextName == ExtractNameCall \/ NameCrewReturns \/ NameCrewRaises

SpecName == Init /\ [][NextName]_vars

(***************************************************************************)
(* What the claims on name extraction speak of.                            *)
(***************************************************************************)
\* the agent returned an object whose name is a string and whose confidence
\* is a number: a proposal {name, confidence, source}
Proposal == Loads(name_raw).val

IsProposal ==
    /\ name_pc = "returned"
    /\ Loads(name_raw).ok
    /\ Proposal.k = "dict"
    /\ GetOr(Proposal, "name", JStr("")).k = "str"
    /\ GetOr(Proposal, "confidence", JInt(0)).k \in {"int", "float", "nan"}

ProposedName == Strip(GetOr(Proposal, "name", JStr("")).s)
ProposedConfidence == GetOr(Proposal, "confidence", JInt(0))
ProposedSource == GetOr(Proposal, "source", JStr(""))

FilenameAvailable == file_name.k = "str" /\ file_name.s # ""

\* the rules of the decision chain, in their order
RuleMatches(i) ==
    CASE i = 1 -> Lower(ProposedName) = "emily chen"
      [] i = 2 -> ProposedName = ""
      [] i = 3 -> Lower(ProposedName) \in example_names
      [] i = 4 -> \E m \in Markers : Substring(m, Lower(ProposedName))
      [] i = 5 -> name_parts(ProposedName) < 2
      [] i = 6 -> Len(ProposedName) > MaxNameLen
      [] i = 7 -> /\ ProposedConfidence.k \in {"int", "float"}
                  /\ ProposedConfidence.n < MinConfidence
                  /\ FilenameAvailable
      [] OTHER -> TRUE

RuleSources ==
    << "forbidden_example_name", "empty_result", "example_name_rejected",
       "placeholder_rejected", "invalid_structure", "name_too_long",
       "filename_fallback" >>

Accepted == Len(RuleSources) + 1

RuleSource(i) ==
    IF i < Accepted THEN JStr(RuleSources[i])
    ELSE IF Truthy(ProposedSource) THEN ProposedSource
    ELSE JStr("content_extraction")

FirstRule ==
    CHOOSE i \in 1..Accepted :
        RuleMatches(i) /\ \A j \in 1..(i - 1) : ~RuleMatches(j)

\* C11: the source of the result of name validation is that of the first rule
\* of the ordered chain (forbidden example, empty, placeholder set, marker,
\* fewer than two tokens, longer than 50 characters, low confidence with a
\* filename, accepted) that matches the proposal; no later rule overrides it.
C11_FirstMatchingRule ==
    IsProposal => name_result.source = RuleSource(FirstRule)

\* a proposal that three rules match (one word, longer than 50 characters, low
\* confidence with a filename) got the source of the first of them
C11_Witness ==
    /\ IsProposal
    /\ Cardinality({ i \in 1..Len(RuleSources) : RuleMatches(i) }) >= 3
    /\ name_result.source = JStr("invalid_structure")

\* the rejection and fallback sources; the handler of line 155 writes
\* "error: " followed by the message of the exception
RejectionSources ==
    { "forbidden_example_name", "empty_result", "example_name_rejected",
      "placeholder_rejected", "invalid_structure", "name_too_long",
      "parse_error", "error", "filename_fallback" }

IsErrorSource(source) ==
    source.k = "str" /\ Len(source.s) >= Len("error")
                     /\ SubSeq(source.s, 1, Len("error")) = "error"

IsRejection(source) ==
    source.k = "str" /\ (source.s \in RejectionSources \/ IsErrorSource(source))

\* C12: whenever the source of a result of extract_candidate_name is a
\* rejection or fallback variant, its name is the caller's filename and its
\* confidence is 0, or 100 for filename_fallback.
C12_RejectionGivesFilename ==
    (name_pc = "returned" /\ IsRejection(name_result.source)) =>
        /\ name_result.name = file_name
        /\ name_result.confidence =
              IF name_result.source = JStr("filename_fallback")
              THEN JInt(FallbackConfidence) ELSE JInt(0)

\* the ten values of the source field
SourceEnum ==
    { "content_extraction", "filename_fallback", "empty_result",
      "example_name_rejected", "placeholder_rejected", "invalid_structure",
      "name_too_long", "forbidden_example_name", "parse_error", "error" }

\* C13: the source of every result of extract_candidate_name is one of the
\* ten enumerated values, whatever the agent did (raised, returned no object,
\* a null name, a source string of its own).
C13_SourceEnumerated ==
    name_pc = "returned" =>
        name_result.source.k = "str" /\ name_result.source.s \in SourceEnum

\* C14: the confidence of every result of extract_candidate_name is an integer
\* between 0 and 100, whatever confidence the agent reported.
C14_ConfidenceInRange ==
    name_pc = "returned" =>
        /\ name_result.confidence.k = "int"
        /\ name_result.confidence.n >= 0
        /\ name_result.confidence.n <= FallbackConfidence

(***************************************************************************)
(* Criteria extraction (criteria_extractor.py).                            *)
(***************************************************************************)
\* line 27: `not job_description or job_description.strip() == ""`
InvalidJobDescription(text) == Len(text) = 0 \/ Strip(text) = ""

\* lines 66-71: the non-empty strings of the list, in order
RECURSIVE FilterCriteria(_)
FilterCriteria(items) ==
    IF items = <<>> THEN <<>>
    ELSE LET criterion == Head(items) IN
         IF criterion.k = "str" /\ Strip(criterion.s) # ""
         THEN <<criterion.s>> \o FilterCriteria(Tail(items))
         ELSE FilterCriteria(Tail(items))

\* lines 46-92 for the text kickoff returned: JSONDecodeError (line 86) and
\* the ValueError of line 62 both leave as ValueError (lines 90-92)
ParseCriteria(result_str) ==
    LET loaded == Loads(result_str) IN
    IF ~loaded.ok THEN [raised |-> TRUE, criteria_list |-> <<>>]
    ELSE IF loaded.val.k # "list" THEN [raised |-> TRUE, criteria_list |-> <<>>]
    ELSE [raised |-> FALSE, criteria_list |-> FilterCriteria(loaded.val.items)]

\* the responses of the job requirements analyst: up to MaxFrags elements,
\* separated by commas, inside one of the wrappers
CriteriaFragments ==
    { << Str("Python") >>, << Str("SQL") >>, << Str("") >>, << Str(" ") >>,
      << Num(6) >>, << NULLT >>, << LS, Str("Go"), RS >>,
      << LB, Str("criterion"), COLON, Str("Python"), RB >>,
      << Word("Python") >> }

CriteriaWrappers ==
    { [pre |-> <<LS>>, post |-> <<RS>>],
      [pre |-> <<>>, post |-> <<>>],
      [pre |-> <<LB, Str("criteria"), COLON, LS>>, post |-> <<RS, RB>>],
      [pre |-> <<LS>>, post |-> <<>>] }

CriteriaTexts ==
    { w.pre \o Join(fs) \o w.post :
         w \in CriteriaWrappers,
         fs \in UNION { [1..n -> CriteriaFragments] : n \in 0..MaxFrags } }

JobDescriptions == { "", " ", "  ", "job text", " job text " }

\* lines 27-41: the job description is validated, then the crew is started
ExtractCriteriaCall ==
    /\ crit_pc = "idle"
    /\ pc = "idle"
    /\ \E text \in JobDescriptions :
          /\ job_description' = text
          /\ IF InvalidJobDescription(text)
             THEN crit_pc' = "raised" /\ crit_error' = "ValueError"
                  /\ agent_calls' = agent_calls
             ELSE crit_pc' = "invoked" /\ crit_error' = ""
                  /\ agent_calls' = agent_calls + 1
    /\ UNCHANGED << crit_raw, criteria_list >>
    /\ UNCHANGED << agent_failures, scoringVars, nameVars, retryVars, routeVars, crewVars >>

\* kickoff returns the text of the agent unchanged (crew line 216 is false
\* without resume_content); lines 46-92 make the list of it or raise
CriteriaCrewReturns ==
    /\ crit_pc = "invoked"
    /\ \E text \in CriteriaTexts :
          LET r == ParseCriteria(text)
          IN  /\ crit_raw' = text
              /\ criteria_list' = r.criteria_list
              /\ IF r.raised
                 THEN crit_pc' = "raised" /\ crit_error' = "ValueError"
                 ELSE crit_pc' = "returned" /\ crit_error' = ""
    /\ UNCHANGED job_description
    /\ UNCHANGED << agentVars, scoringVars, nameVars, retryVars, routeVars, crewVars >>

\* ResumeRankerCrew() or kickoff raises: lines 90-92 raise ValueError at once
CriteriaCrewRaises ==
    /\ crit_pc = "invoked"
    /\ crit_pc' = "raised"
    /\ crit_error' = "ValueError"
    /\ agent_failures' = agent_failures + 1
    /\ UNCHANGED << job_description, crit_raw, criteria_list >>
    /\ UNCHANGED << agent_calls, scoringVars, nameVars, retryVars, routeVars, crewVars >>

\* the two adapters the routes call, one call in a run
NextAdapters ==
    \/ ScoreResumeCall \/ CrewReturns \/ CrewRaises
    \/ ExtractCriteriaCall \/ CriteriaCrewReturns \/ CriteriaCrewRaises

SpecAdapters == Init /\ [][NextAdapters]_vars

(***************************************************************************)
(* What the claims on the adapters speak of.                               *)
(***************************************************************************)
ScoringCalled == pc # "idle"
CriteriaCalled == crit_pc # "idle"

BlankText(text) == \A i \in 1..Len(text) : CharAt(text, i) = " "

\* C15: called with an empty or whitespace-only text (or, for scoring, with an
\* empty criteria list), extract_criteria_from_text and
\* score_resume_against_criteria raise ValueError and the agent is invoked
\* zero times during the call.
C15_InputErrorBeforeAgent ==
    /\ (ScoringCalled /\ (BlankText(resume_content) \/ criteria = <<>>)) =>
          pc = "raised" /\ error = "ValueError" /\ agent_calls = 0
    /\ (CriteriaCalled /\ BlankText(job_description)) =>
          crit_pc = "raised" /\ crit_error = "ValueError" /\ agent_calls = 0

\* score_resume_against_criteria was called with a whitespace-only resume and
\* a criteria list, and raised without an agent invocation
C15_Witness ==
    /\ pc = "raised"
    /\ resume_content = " "
    /\ criteria # <<>>
    /\ agent_calls = 0

\* the attempt limit the repository configures where it applies async_retry
\* to criteria extraction and scoring (crew_manager.py lines 65 and 114)
ConfiguredRetries == 3

AdapterRaised == pc = "raised" \/ crit_pc = "raised"

\* C19: when the agent invocation fails inside extract_criteria_from_text or
\* score_resume_against_criteria, it is retried up to the configured attempt
\* limit, and the error reaches the caller only after all attempts failed.
C19_AgentFailureRetried ==
    (AdapterRaised /\ agent_failures > 0) =>
        agent_calls = ConfiguredRetries /\ agent_failures = ConfiguredRetries

\* the agent returned a text to extract_criteria_from_text
CriteriaAgentReturned == crit_pc \in {"returned", "raised"} /\ agent_calls > agent_failures

\* C20: extract_criteria_from_text never raises because of the text the agent
\* returned: unparseable text, a JSON object or a truncated list give a
\* (possibly empty) criteria list.
C20_MalformedOutputAbsorbed ==
    CriteriaAgentReturned => crit_pc = "returned"

(***************************************************************************)
(* async_retry and the methods of CrewManager it decorates                 *)
(* (crew_manager.py).                                                      *)
(***************************************************************************)
\* largest max_retries and delay a decorator of the model is given
MaxRetries == 4
MaxDelay == 2

\* delay of the decorators of lines 65 and 114
ConfiguredDelay == 2

\* faulty variant: the last attempt is not recognised, the error is swallowed
IsFinalAttemptNever(attempt_, max_retries_) == attempt_ = max_retries_

\* line 29: `attempt == max_retries - 1`
IsFinalAttempt(attempt_, max_retries_) == attempt_ = max_retries_ - 1

\* faulty variant: exponential backoff, delay * 2 ** attempt
BackoffDelayExponential(delay_, attempt_) == delay_ * (2 ^ attempt_)

\* line 37: `delay * (attempt + 1)`
BackoffDelay(delay_, attempt_) == delay_ * (attempt_ + 1)

\* the wrapped functions: an operation that fails or succeeds as it likes,
\* and the two decorated methods of CrewManager with their arguments
Operation == [name |-> "operation", text |-> "", criteria |-> <<>>]

Funcs ==
    { Operation }
    \cup { [name |-> "extract_criteria", text |-> t, criteria |-> <<>>] :
              t \in JobDescriptions }
    \cup { [name |-> "score_resume", text |-> t, criteria |-> cl] :
              t \in ResumeContents, cl \in CriteriaLists }

\* lines 76-78 and 128-134: the body raises ValueError for its arguments
InputError(f) ==
    CASE f.name = "extract_criteria" -> Len(f.text) = 0 \/ Strip(f.text) = ""
      [] f.name = "score_resume" ->
            Len(f.text) = 0 \/ Strip(f.text) = "" \/ Len(f.criteria) = 0
      [] OTHER -> FALSE

\* the decorator arguments: lines 65 and 114 for the methods of CrewManager,
\* any for another operation
Decorations(f) ==
    IF f.name = "operation"
    THEN { [max_retries |-> m, delay |-> d] :
              m \in (0 - 1)..MaxRetries, d \in 1..MaxDelay }
    ELSE { [max_retries |-> ConfiguredRetries, delay |-> ConfiguredDelay] }

\* line 24: the wrapper is called; line 25: the loop starts
WrapperCall ==
    /\ retry_pc = "idle"
    /\ \E f \in Funcs : \E dec \in Decorations(f) :
          /\ func' = f
          /\ max_retries' = dec.max_retries
          /\ delay' = dec.delay
    /\ attempt' = 0
    /\ retry_pc' = "loop"
    /\ UNCHANGED << invocations, sleeps, retry_result >>
    /\ UNCHANGED << scoringVars, agentVars, criteriaVars, nameVars, routeVars, crewVars >>

\* line 27: the body runs and returns; the wrapper returns its result
FuncReturns ==
    /\ retry_pc = "loop"
    /\ attempt < max_retries
    /\ ~InputError(func)
    /\ invocations' = Append(invocations, "returned")
    /\ retry_result' = [kind |-> "returned", invocation |-> Len(invocations) + 1]
    /\ retry_pc' = "returned"
    /\ UNCHANGED << func, max_retries, delay, attempt, sleeps >>
    /\ UNCHANGED << scoringVars, agentVars, criteriaVars, nameVars, routeVars, crewVars >>

\* lines 27-36: the body raises (an input error of lines 76-78 / 128-134, or
\* an error of the crew wrapped at lines 110-112 / 186-188); the last
\* attempt re-raises it, any other goes on to sleep
FuncRaises ==
    /\ retry_pc = "loop"
    /\ attempt < max_retries
    /\ invocations' = Append(invocations,
                             IF InputError(func) THEN "input_error" ELSE "error")
    /\ IF IsFinalAttempt(attempt, max_retries)
       THEN /\ retry_pc' = "raised"
            /\ retry_result' = [kind |-> "raised",
                                invocation |-> Len(invocations) + 1]
       ELSE /\ retry_pc' = "sleeping"
            /\ retry_result' = retry_result
    /\ UNCHANGED << func, max_retries, delay, attempt, sleeps >>
    /\ UNCHANGED << scoringVars, agentVars, criteriaVars, nameVars, routeVars, crewVars >>

\* line 37: asyncio.sleep(delay * (attempt + 1)), then the next iteration
Sleep ==
    /\ retry_pc = "sleeping"
    /\ sleeps' = Append(sleeps, BackoffDelay(delay, attempt))
    /\ attempt' = attempt + 1
    /\ retry_pc' = "loop"
    /\ UNCHANGED << func, max_retries, delay, invocations, retry_result >>
    /\ UNCHANGED << scoringVars, agentVars, criteriaVars, nameVars, routeVars, crewVars >>

\* line 25: range(max_retries) is used up; the wrapper returns None
LoopEnds ==
    /\ retry_pc = "loop"
    /\ attempt >= max_retries
    /\ retry_result' = [kind |-> "none", invocation |-> 0]
    /\ retry_pc' = "returned"
    /\ UNCHANGED << func, max_retries, delay, attempt, invocations, sleeps >>
    /\ UNCHANGED << scoringVars, agentVars, criteriaVars, nameVars, routeVars, crewVars >>

NextRetry == WrapperCall \/ FuncReturns \/ FuncRaises \/ Sleep \/ LoopEnds

SpecRetry == Init /\ [][NextRetry]_vars

(***************************************************************************)
(* What the claims on the retry wrapper speak of.                          *)
(***************************************************************************)
WrapperDone == retry_pc \in {"returned", "raised"}

Failed(i) == invocations[i] # "returned"

\* C16: with max_retries = N >= 1, an operation that fails k < N times and
\* then succeeds makes the wrapper return that result after exactly k + 1
\* invocations; one that fails N times makes it raise the error of the N-th
\* attempt after exactly N invocations.
C16_RetryUntilSuccessOrLimit ==
    (WrapperDone /\ max_retries >= 1) =>
        LET n == Len(invocations) IN
        /\ n >= 1 /\ n <= max_retries
        /\ \A i \in 1..(n - 1) : Failed(i)
        /\ IF Failed(n)
           THEN /\ n = max_retries
                /\ retry_pc = "raised"
                /\ retry_result = [kind |-> "raised", invocation |-> max_retries]
           ELSE /\ retry_pc = "returned"
                /\ retry_result = [kind |-> "returned", invocation |-> n]

\* an operation failed twice and succeeded on the third of more than three
\* attempts: the wrapper returned after exactly three invocations
C16_Witness ==
    /\ func = Operation
    /\ max_retries > 3
    /\ invocations = << "error", "error", "returned" >>
    /\ retry_pc = "returned"

C18_InputErrorNotRetried ==
    (retry_pc # "idle" /\ InputError(func)) =>
        /\ Len(invocations) <= 1
        /\ sleeps = <<>>
        /\ retry_pc # "sleeping"

(***************************************************************************)
(* C24: when the text does not parse and tier 2 finds no complete object,  *)
(* tier 3 pairs the i-th "criterion" match with the i-th "score" match for *)
(* i up to the smaller of the two counts and produces exactly that many    *)
(* pairs, in kickoff's repair and in the scorer's own recovery alike;      *)
(* surplus matches are ignored, also when one of the counts is zero.       *)
(***************************************************************************)
\* the elements of the `scores` array of a parsed value
ScoresItems(val) ==
    IF val.k = "dict" /\ HasKey(val, "scores") /\ Get(val, "scores").k = "list"
    THEN Get(val, "scores").items
    ELSE <<>>

\* items holds exactly the first pairs of the criterion and score matches
PairedByPosition(items, criterion_matches, score_matches) ==
    /\ Len(items) = Min(Len(criterion_matches), Len(score_matches))
    /\ \A i \in 1..Len(items) :
          /\ IsScoreObject(items[i])
          /\ CriterionOf(items[i]) = criterion_matches[i]
          /\ ScoreOf(items[i]) = score_matches[i]

Tier2FoundNothing == AgentReturned /\ ~Loads(raw).ok /\ FindFull(raw, 1) = <<>>

DirectResponse == ProcessResponse(raw, criteria)

C27_RepairPreservesOutcome ==
    pc = "returned" =>
        /\ ~DirectResponse.raised
        /\ scores = DirectResponse.scores

(***************************************************************************)
(* C28: a malformed element of the `scores` array (no `criterion` or no    *)
(* `score`, not an object, a criterion that is not hashable) is skipped    *)
(* and every well-formed element of the array still gives its clamped      *)
(* score to the returned ScoreSet.                                         *)
(***************************************************************************)
Malformed(item) ==
    \/ ~HasBothKeys(item)
    \/ Get(item, "criterion").k \in {"list", "dict"}

C28_MalformedElementSkipped ==
    (pc = "returned" /\ \E j \in 1..Len(RecoveredItems) : Malformed(RecoveredItems[j])) =>
        \A i \in 1..Len(RecoveredItems) :
            (IsScoreObject(RecoveredItems[i]) /\ OnlyOccurrence(i)) =>
                /\ CriterionOf(RecoveredItems[i]) \in DOMAIN scores
                /\ scores[CriterionOf(RecoveredItems[i])]
                       = ClampToRange(ScoreOf(RecoveredItems[i]))

(***************************************************************************)
(* C30: for every max_retries (0 and negative values too) a call of the    *)
(* wrapper either returns the value of a successful invocation of the      *)
(* operation or raises the error of its last invocation; it never returns  *)
(* without a successful invocation.                                        *)
(***************************************************************************)
C30_ReturnsOnlyAfterSuccess ==
    /\ retry_pc = "returned" =>
          /\ retry_result.kind = "returned"
          /\ retry_result.invocation = Len(invocations)
          /\ invocations # <<>>
          /\ ~Failed(Len(invocations))
    /\ retry_pc = "raised" =>
          /\ retry_result.kind = "raised"
          /\ retry_result.invocation = Len(invocations)
          /\ invocations # <<>>
          /\ Failed(Len(invocations))


(***************************************************************************)
(* The routes: routes/scoring.py (score_resumes), routes/pipeline.py       *)
(* (rank_resumes_from_job), routes/criteria.py (extract_criteria_endpoint) *)
(* and services/result_formatter.py (generate_csv_from_scores).            *)
(***************************************************************************)
\* number of resume files of a request
MaxResumes == 3

UpperChar(c) ==
    IF \E i \in 1..Len(LowerCase) : CharAt(LowerCase, i) = c
    THEN CharAt(UpperCase, CHOOSE i \in 1..Len(LowerCase) : CharAt(LowerCase, i) = c)
    ELSE c

\* a cased character
IsLetter(c) == LowerChar(c) # c \/ UpperChar(c) # c

\* str.title(): the first letter of every run of letters in upper case, the
\* other letters of the run in lower case
RECURSIVE TitleFrom(_, _)
TitleFrom(s, inWord) ==
    IF Len(s) = 0 THEN ""
    ELSE LET c == CharAt(s, 1)
         IN  (IF inWord THEN LowerChar(c) ELSE UpperChar(c))
             \o TitleFrom(Rest(s), IsLetter(c))

Title(s) == TitleFrom(s, FALSE)

\* str.replace(old, new): the occurrences from the left, not overlapping
RECURSIVE Replace(_, _, _)
Replace(s, old, new) ==
    IF Len(s) < Len(old) \/ Len(old) = 0 THEN s
    ELSE IF SubSeq(s, 1, Len(old)) = old
         THEN new \o Replace(SubSeq(s, Len(old) + 1, Len(s)), old, new)
         ELSE CharAt(s, 1) \o Replace(Rest(s), old, new)

\* the position of the last `c` in s, 0 without one
LastPos(s, c) ==
    IF \E i \in 1..Len(s) : CharAt(s, i) = c
    THEN CHOOSE i \in 1..Len(s) :
            /\ CharAt(s, i) = c
            /\ \A j \in (i + 1)..Len(s) : CharAt(s, j) # c
    ELSE 0

\* os.path.splitext(filename)[0]: the name up to its last dot; a dot that
\* only dots precede in the base name starts no extension
SplitExtRoot(filename) ==
    LET dot == LastPos(filename, ".")
        sep == LastPos(filename, "/")
    IN  IF dot > sep /\ \E i \in (sep + 1)..(dot - 1) : CharAt(filename, i) # "."
        THEN SubSeq(filename, 1, dot - 1)
        ELSE filename

\* scoring.py lines 133 and 160
FilenameAsName(filename) == Title(Replace(SplitExtRoot(filename), "_", " "))

\* scoring.py line 145, result_formatter.py line 34
CleanColumn(criterion) ==
    Replace(Replace(criterion, "[Required] ", ""), "[Preferred] ", "")

\* file.filename of the i-th uploaded resume
Filename(i) == "resume_" \o ToString(i) \o ".pdf"


\* a ScoreSet as score_resume_against_criteria returns it: the pairs of
\* scores.items() in the order of insertion
Item(criterion, score) == [criterion |-> criterion, score |-> score]

\* a row of `results`; file: the position of the resume it was made for;
\* columns: the score columns in the order of insertion
ScoredRow(file, name, columns, total) ==
    [file |-> file, name |-> name, has_error |-> FALSE, error |-> "",
     columns |-> columns, total |-> total]

\* scoring.py lines 159-162
ErrorRow(file, message) ==
    [file |-> file, name |-> FilenameAsName(Filename(file)), has_error |-> TRUE,
     error |-> message, columns |-> <<>>, total |-> 0]

\* result[column_name] = score
SetColumn(columns, column_name, score) ==
    IF \E j \in 1..Len(columns) : columns[j].criterion = column_name
    THEN [j \in 1..Len(columns) |->
             IF columns[j].criterion = column_name THEN Item(column_name, score)
             ELSE columns[j]]
    ELSE Append(columns, Item(column_name, score))

\* scoring.py lines 141-146
RECURSIVE ScoreColumns(_, _)
ScoreColumns(items, columns) ==
    IF items = <<>> THEN columns
    ELSE ScoreColumns(Tail(items),
                      SetColumn(columns, CleanColumn(Head(items).criterion),
                                Max(0, Min(MaxScore, Head(items).score))))

\* sum(scores.values())
RECURSIVE SumScores(_)
SumScores(items) ==
    IF items = <<>> THEN 0 ELSE Head(items).score + SumScores(Tail(items))

\* scoring.py lines 140-154
ResultRow(file, name, items) ==
    ScoredRow(file, name, ScoreColumns(items, <<>>), SumScores(items))

\* scoring.py line 129 and 132-133: the name of the name result when its
\* confidence is at least 70 and the name is not empty, else the file name
CandidateName(result, filename) ==
    LET confident == LessThan(result.confidence, MinConfidence)
    IN  IF confident.ok /\ ~confident.val /\ result.confidence.k # "nan"
           /\ result.name.k = "str" /\ result.name.s # ""
        THEN result.name.s
        ELSE FilenameAsName(filename)

\* result_formatter.py line 30
HasErrorColumn(rows) == \E i \in 1..Len(rows) : rows[i].has_error

\* result_formatter.py lines 33-35
ScoreColumnNames(rows, criteria_list_) ==
    { col \in UNION { { rows[i].columns[j].criterion : j \in 1..Len(rows[i].columns) }
                      : i \in 1..Len(rows) } :
         \/ col \in Range(criteria_list_)
         \/ CleanColumn(col) \in { CleanColumn(c) : c \in Range(criteria_list_) } }

\* result_formatter.py line 38 for one row: the sum of its score columns
RECURSIVE SumColumns(_, _)
SumColumns(columns, score_columns) ==
    IF columns = <<>> THEN 0
    ELSE (IF Head(columns).criterion \in score_columns THEN Head(columns).score ELSE 0)
         + SumColumns(Tail(columns), score_columns)

Retotal(rows, score_columns) ==
    [i \in 1..Len(rows) |->
        [rows[i] EXCEPT !.total = SumColumns(rows[i].columns, score_columns)]]

\* faulty variant: the rows are put in ascending order of the total
SortedAscending(rows) ==
    { [i \in 1..Len(rows) |-> rows[p[i]]] : p \in
        { q \in Permutations(1..Len(rows)) :
            \A i \in 1..(Len(rows) - 1) : rows[q[i]].total <= rows[q[i + 1]].total } }

\* result_formatter.py line 41: the orders sort_values may give (equal totals
\* in any order)
SortedDescending(rows) ==
    { [i \in 1..Len(rows) |-> rows[p[i]]] : p \in
        { q \in Permutations(1..Len(rows)) :
            \A i \in 1..(Len(rows) - 1) : rows[q[i]].total >= rows[q[i + 1]].total } }

\* result_formatter.py lines 26-45: the rows the CSV may hold
GenerateCsv(rows, criteria_list_) ==
    LET score_columns == ScoreColumnNames(rows, criteria_list_)
    IN  IF ~HasErrorColumn(rows) /\ Len(criteria_list_) > 0 /\ score_columns # {}
        THEN SortedDescending(Retotal(rows, score_columns))
        ELSE { rows }


\* an agent invocation of the request; file: the position of the resume, 0 for
\* the job description
Call(kind, file) == [kind |-> kind, file |-> file]

\* faulty variant: the call is started and not awaited
AwaitedNever(flight, call) == flight

\* `await`: the next line runs when the call has ended
Awaited(flight, call) == flight \ {call}

\* what DocumentProcessor.extract_text_from_file gives for an uploaded file:
\* its text (stripped, it may be empty), HTTPException(400) for a file of an
\* unsupported type or one that cannot be read, HTTPException(500) for any
\* other failure (document_processor.py lines 83-99)
Extracted(text) == [code |-> 0, text |-> text, message |-> ""]
ExtractionFailed(code, detail) ==
    [code |-> code, text |-> "", message |-> ToString(code) \o ": " \o detail]

JobDescriptionFiles ==
    { Extracted(""), Extracted("job text"),
      ExtractionFailed(400, "Unsupported file type. Only PDF and DOCX files are supported."),
      ExtractionFailed(500, "Error processing file jd.pdf: read failed") }

ResumeFiles ==
    { Extracted(""), Extracted("resume text"),
      ExtractionFailed(400, "Unsupported file type. Only PDF and DOCX files are supported.") }

\* pipeline.py lines 90-96, criteria.py lines 71-77: the status of the
\* response for an exception raised inside the try
HandlerStatus(exception) == IF exception = "ValueError" THEN 400 ELSE 500

\* the text of a token, for the comma-separated form of the criteria
TokenText(tok) ==
    CASE tok.t = "word" -> tok.s
      [] tok.t = "str" -> "\"" \o tok.s \o "\""
      [] tok.t = "num" -> ToString(tok.n)
      [] tok.t = "neg" -> "-" \o ToString(tok.n)
      [] tok.t = "flt" -> ToString(tok.n) \o "." \o ToString(tok.f)
      [] tok.t = "nan" -> "NaN"
      [] tok.t = "null" -> "null"
      [] tok.t = "lb" -> "{"
      [] tok.t = "rb" -> "}"
      [] tok.t = "ls" -> "["
      [] tok.t = "rs" -> "]"
      [] tok.t = "colon" -> ":"
      [] OTHER -> ","

\* scoring.py line 104: [c.strip() for c in criteria.split(",") if c.strip()]
RECURSIVE CommaSplit(_, _)
CommaSplit(toks, piece) ==
    IF toks = <<>>
    THEN IF Strip(piece) # "" THEN << Strip(piece) >> ELSE <<>>
    ELSE IF Head(toks).t = "comma"
         THEN (IF Strip(piece) # "" THEN << Strip(piece) >> ELSE <<>>)
              \o CommaSplit(Tail(toks), "")
         ELSE CommaSplit(Tail(toks), piece \o " " \o TokenText(Head(toks)))

\* json.dumps of a list of strings (pipeline.py line 85)
RECURSIVE DumpsStrings(_)
DumpsStrings(strings) ==
    IF strings = <<>> THEN <<>>
    ELSE IF Len(strings) = 1 THEN << Str(strings[1]) >>
    ELSE << Str(strings[1]), COMMA >> \o DumpsStrings(Tail(strings))

DumpsList(strings) == <<LS>> \o DumpsStrings(strings) \o <<RS>>

\* the strings of a parsed list (the lists of the model hold strings only)
StringsOf(val) == [i \in 1..Len(val.items) |-> val.items[i].s]

\* scoring.py lines 90-113: the criteria form field; raised = TRUE is the
\* HTTPException(400) of line 113
ParseCriteriaForm(form) ==
    LET loaded == Loads(form)
        parsed ==
            IF ~loaded.ok THEN [ok |-> TRUE, list |-> CommaSplit(form, "")]
            ELSE IF loaded.val.k = "list"
                 THEN [ok |-> TRUE, list |-> StringsOf(loaded.val)]
            ELSE IF loaded.val.k = "dict" /\ HasKey(loaded.val, "criteria")
                 THEN [ok |-> TRUE, list |-> StringsOf(Get(loaded.val, "criteria"))]
            ELSE [ok |-> FALSE, list |-> <<>>]
    IN  IF ~parsed.ok \/ parsed.list = <<>>
        THEN [raised |-> TRUE, criteria_list |-> <<>>]
        ELSE [raised |-> FALSE, criteria_list |-> parsed.list]

\* the values of the criteria form field of /score-resumes
ListText(strings) == DumpsList(strings)

CriteriaForms ==
    { ListText(<<"X">>), ListText(<<>>),
      << LB, Str("criteria"), COLON >> \o ListText(<<"X">>) \o << RB >>,
      << LB, Str("result"), COLON >> \o ListText(<<"X">>) \o << RB >>,
      << Num(7) >>,
      << COMMA, Word("X"), COMMA >>,
      <<>> }

\* the responses of the job requirements analyst to the job description
RouteCriteriaTexts ==
    { ListText(<<"X", "Y">>),
      ListText(<<"[Required] X", "[Preferred] X">>),
      ListText(<<>>), ListText(<<"", " ">>),
      << LB, Str("criteria"), COLON >> \o ListText(<<"X">>) \o << RB >>,
      << Word("Python") >> }

\* the responses of the name extraction agent
RouteNameTexts ==
    { << LB, Str("name"), COLON, Str("Maria Garcia"), COMMA,
         Str("confidence"), COLON, Num(90), RB >>,
      << LB, Str("name"), COLON, Str("Maria Garcia"), COMMA,
         Str("confidence"), COLON, Str("high"), RB >>,
      << Word("Maria") >> }

\* str(e) of the exception a crew of the request raises
RouteCrewErrors == { "rate limit exceeded" }

\* the scores an agent gives to the first criterion; each other one gets 2
ScoreValues == { 1, 4 }

\* the ScoreSets score_resume_against_criteria may return for the canonical
\* list: a score for every canonical criterion, and with the higher first
\* score possibly one for a criterion outside the list (resume_scorer.py
\* lines 159-182)
ScoreSets(canonical) ==
    LET base == { [i \in 1..Len(canonical) |-> Item(canonical[i], v[i])] :
                     v \in { [i \in 1..Len(canonical) |->
                                 IF i = 1 THEN first ELSE 2] :
                             first \in ScoreValues } }
    IN  base \cup { Append(items, Item("Z", 3)) :
                       items \in { b \in base : b[1].score > 2 } }


\* faulty variant: the row of a failed resume is not appended
HandleFailureDropped(rows, file, message) == rows

\* scoring.py lines 157-162: the handler of the loop body
HandleFailure(rows, file, message) == Append(rows, ErrorRow(file, message))

\* the end of an iteration of the loop of line 119 with the rows so far: the
\* next resume, or after the last one the CSV (line 166) and the response
NextResume(rows) ==
    IF file_idx = resumes
    THEN /\ route_pc' = "done"
         /\ status' = 200
         /\ csv' \in GenerateCsv(rows, route_criteria)
         /\ file_idx' = file_idx
    ELSE /\ route_pc' = "loop"
         /\ file_idx' = file_idx + 1
         /\ UNCHANGED << csv, status >>

\* the response to a request that ends with an exception
Respond(exception, code) ==
    /\ route_pc' = "done"
    /\ route_error' = exception
    /\ status' = code
    /\ UNCHANGED << route_criteria, file_idx, content, candidate_name, failed_files,
                    results, csv >>

\* scoring.py lines 90-117 for the criteria form field: HTTPException(400),
\* or the loop starts
StartScoring(form, code) ==
    LET parsed == ParseCriteriaForm(form)
    IN  IF parsed.raised
        THEN Respond("HTTPException 400", code)
        ELSE /\ route_criteria' = parsed.criteria_list
             /\ route_pc' = "loop"
             /\ file_idx' = 1
             /\ UNCHANGED << content, candidate_name, failed_files, route_error,
                             results, csv, status >>

\* POST /score-resumes: scoring.py lines 90-117
ScoreResumesRequest ==
    /\ route_pc = "idle"
    /\ endpoint' = "score-resumes"
    /\ \E n \in 1..MaxResumes : resumes' = n
    /\ \E form \in CriteriaForms : StartScoring(form, 400)
    /\ UNCHANGED << in_flight, completed >>
    /\ UNCHANGED << scoringVars, agentVars, criteriaVars, nameVars, retryVars, crewVars >>

\* POST /all (pipeline.py lines 69-75) and POST /extract-criteria
\* (criteria.py lines 60-66): the text of the job description, then the call
\* of extract_criteria_from_text
JobDescriptionRequest(ep) ==
    /\ route_pc = "idle"
    /\ endpoint' = ep
    /\ IF ep = "all" THEN \E n \in 1..MaxResumes : resumes' = n ELSE resumes' = 0
    /\ \E file \in JobDescriptionFiles :
          IF file.code # 0
          THEN /\ Respond("HTTPException " \o ToString(file.code),
                          HandlerStatus("HTTPException"))
               /\ UNCHANGED in_flight
          ELSE IF InvalidJobDescription(file.text)
          THEN Respond("ValueError", HandlerStatus("ValueError")) /\ UNCHANGED in_flight
          ELSE /\ in_flight' = in_flight \cup { Call("criteria", 0) }
               /\ route_pc' = "criteria"
               /\ UNCHANGED << route_criteria, file_idx, content, candidate_name,
                               failed_files, route_error, results, csv, status >>
    /\ UNCHANGED completed
    /\ UNCHANGED << scoringVars, agentVars, criteriaVars, nameVars, retryVars, crewVars >>

\* extract_criteria_from_text returns or raises ValueError; pipeline.py lines
\* 77-88, criteria.py line 69
RouteCriteriaReturns ==
    /\ route_pc = "criteria"
    /\ in_flight' = Awaited(in_flight, Call("criteria", 0))
    /\ completed' = completed \cup { Call("criteria", 0) }
    /\ \E text \in RouteCriteriaTexts :
          LET r == ParseCriteria(text)
          IN  IF r.raised THEN Respond("ValueError", HandlerStatus("ValueError"))
              ELSE IF endpoint = "extract-criteria"
              THEN /\ route_pc' = "done"
                   /\ status' = 200
                   /\ route_criteria' = r.criteria_list
                   /\ UNCHANGED << file_idx, content, candidate_name, failed_files,
                                   route_error, results, csv >>
              ELSE IF r.criteria_list = <<>>
              THEN Respond("HTTPException 400", HandlerStatus("HTTPException"))
              ELSE StartScoring(DumpsList(r.criteria_list), HandlerStatus("HTTPException"))
    /\ UNCHANGED << endpoint, resumes >>
    /\ UNCHANGED << scoringVars, agentVars, criteriaVars, nameVars, retryVars, crewVars >>

\* the crew raises: criteria_extractor.py lines 90-92 make it a ValueError
RouteCriteriaRaises ==
    /\ route_pc = "criteria"
    /\ in_flight' = Awaited(in_flight, Call("criteria", 0))
    /\ completed' = completed \cup { Call("criteria", 0) }
    /\ Respond("ValueError", HandlerStatus("ValueError"))
    /\ UNCHANGED << endpoint, resumes >>
    /\ UNCHANGED << scoringVars, agentVars, criteriaVars, nameVars, retryVars, crewVars >>

\* scoring.py lines 119-128: the text of the next resume, then the call of
\* extract_candidate_name
ExtractResumeText ==
    /\ route_pc = "loop"
    /\ \E file \in ResumeFiles :
          IF file.code # 0
          THEN /\ results' = HandleFailure(results, file_idx, file.message)
               /\ failed_files' = failed_files \cup { file_idx }
               /\ NextResume(results')
               /\ UNCHANGED << content, candidate_name, in_flight >>
          ELSE /\ content' = file.text
               /\ in_flight' = in_flight \cup { Call("name", file_idx) }
               /\ route_pc' = "name"
               /\ UNCHANGED << candidate_name, failed_files, results, csv, status,
                               file_idx >>
    /\ UNCHANGED << endpoint, route_criteria, resumes, route_error, completed >>
    /\ UNCHANGED << scoringVars, agentVars, criteriaVars, nameVars, retryVars, crewVars >>

\* scoring.py lines 128-137 with the result of extract_candidate_name: the
\* candidate name, then the call of score_resume_against_criteria, which
\* raises ValueError at once on an empty text
AfterName(name_result_) ==
    LET flight == Awaited(in_flight, Call("name", file_idx))
    IN  /\ candidate_name' = CandidateName(name_result_, Filename(file_idx))
        /\ completed' = completed \cup { Call("name", file_idx) }
        /\ IF InvalidScoringInput(content, route_criteria)
           THEN /\ results' = HandleFailure(results, file_idx,
                                            "Resume content cannot be empty")
                /\ failed_files' = failed_files \cup { file_idx }
                /\ in_flight' = flight
                /\ NextResume(results')
           ELSE /\ in_flight' = flight \cup { Call("score", file_idx) }
                /\ route_pc' = "score"
                /\ UNCHANGED << failed_files, results, csv, status, file_idx >>

\* the name extraction agent answers
RouteNameReturns ==
    /\ route_pc = "name"
    /\ \E text \in RouteNameTexts : AfterName(ParseName(text, JStr(Filename(file_idx))))
    /\ UNCHANGED << endpoint, route_criteria, resumes, content, route_error >>
    /\ UNCHANGED << scoringVars, agentVars, criteriaVars, nameVars, retryVars, crewVars >>

\* the crew of the name extraction raises: name_extractor.py lines 153-155
RouteNameRaises ==
    /\ route_pc = "name"
    /\ \E message \in RouteCrewErrors :
          AfterName(ErrorResult(JStr(Filename(file_idx)), message))
    /\ UNCHANGED << endpoint, route_criteria, resumes, content, route_error >>
    /\ UNCHANGED << scoringVars, agentVars, criteriaVars, nameVars, retryVars, crewVars >>

\* score_resume_against_criteria returns a ScoreSet: scoring.py lines 139-154
RouteScoreReturns ==
    /\ route_pc = "score"
    /\ in_flight' = Awaited(in_flight, Call("score", file_idx))
    /\ completed' = completed \cup { Call("score", file_idx) }
    /\ \E items \in ScoreSets(route_criteria) :
          /\ results' = Append(results, ResultRow(file_idx, candidate_name, items))
          /\ NextResume(results')
    /\ UNCHANGED << endpoint, route_criteria, resumes, content, candidate_name,
                    failed_files, route_error >>
    /\ UNCHANGED << scoringVars, agentVars, criteriaVars, nameVars, retryVars, crewVars >>

\* the crew of the scoring raises: resume_scorer.py lines 191-193 make it a
\* ValueError, the handler of the loop makes it a row
RouteScoreRaises ==
    /\ route_pc = "score"
    /\ in_flight' = Awaited(in_flight, Call("score", file_idx))
    /\ completed' = completed \cup { Call("score", file_idx) }
    /\ \E message \in RouteCrewErrors :
          results' = HandleFailure(results, file_idx,
                                   "Failed to score resume: " \o message)
    /\ failed_files' = failed_files \cup { file_idx }
    /\ NextResume(results')
    /\ UNCHANGED << endpoint, route_criteria, resumes, content, candidate_name,
                    route_error >>
    /\ UNCHANGED << scoringVars, agentVars, criteriaVars, nameVars, retryVars, crewVars >>

NextRoutes ==
    \/ ScoreResumesRequest
    \/ JobDescriptionRequest("all")
    \/ JobDescriptionRequest("extract-criteria")
    \/ RouteCriteriaReturns
    \/ RouteCriteriaRaises
    \/ ExtractResumeText
    \/ RouteNameReturns
    \/ RouteNameRaises
    \/ RouteScoreReturns
    \/ RouteScoreRaises

SpecRoutes == Init /\ [][NextRoutes]_vars


(***************************************************************************)
(* C21: a failure while one resume is processed (its text extraction, its  *)
(* name extraction or its scoring raising) never aborts the batch: once    *)
(* the loop has started the request ends with the CSV, and after the loop  *)
(* the result list holds exactly one row per uploaded resume, in upload    *)
(* order; the row of every failed resume carries the error field, and      *)
(* every other resume has been scored.                                     *)
(***************************************************************************)
BatchDone == route_pc = "done" /\ file_idx >= 1

C21_FailureKeepsBatch ==
    /\ route_pc \in {"loop", "name", "score"} => Len(results) = file_idx - 1
    /\ BatchDone =>
          /\ status = 200
          /\ Len(results) = resumes
          /\ \A i \in 1..resumes :
                /\ results[i].file = i
                /\ results[i].has_error <=> i \in failed_files
                /\ i \notin failed_files =>
                      /\ Call("name", i) \in completed
                      /\ Call("score", i) \in completed
                      /\ results[i].columns # <<>>

\* the first resume failed, the two after it were scored
C21_Witness ==
    /\ BatchDone
    /\ resumes = 3
    /\ failed_files = {1}
    /\ ~results[2].has_error
    /\ ~results[3].has_error


(***************************************************************************)
(* C22: the rows of the CSV are sorted by Total Score in descending order, *)
(* also in a batch in which a resume failed and produced an error row: of  *)
(* any two scored rows the one with the higher total comes first.          *)
(***************************************************************************)
C22_CsvSortedDescending ==
    BatchDone =>
        \A i, j \in 1..Len(csv) :
            (i < j /\ ~csv[i].has_error /\ ~csv[j].has_error)
                => csv[i].total >= csv[j].total


(***************************************************************************)
(* C23: in /all and /extract-criteria every invalid-input or processing    *)
(* failure (a job description file of an unsupported type or unreadable,   *)
(* an empty job description, no criteria extracted) is answered with HTTP  *)
(* 400; 500 is answered only for unexpected errors.                        *)
(***************************************************************************)
JobEndpointDone == route_pc = "done" /\ endpoint \in {"all", "extract-criteria"}

C23_InputFailureIs400 ==
    JobEndpointDone =>
        /\ route_error \in {"ValueError", "HTTPException 400"} => status = 400
        /\ status = 200 => route_criteria # <<>>
        /\ status = 500 => route_error = "HTTPException 500"


(***************************************************************************)
(* C25: within one /all request the agent invocations form one sequential  *)
(* flow: the criteria extraction has completed, with a non-empty criteria  *)
(* list, before any resume is touched; for every resume its name           *)
(* extraction has completed before its scoring starts; and no two agent    *)
(* invocations of the request are in flight at the same time.              *)
(***************************************************************************)
Started == in_flight \cup completed

TotalsAlone(row) == { alone[1].total : alone \in GenerateCsv(<< row >>, route_criteria) }

C29_TotalDependsOnOwnScores ==
    BatchDone =>
        \A i \in 1..Len(csv) :
            ~csv[i].has_error => TotalsAlone(results[csv[i].file]) = { csv[i].total }


(***************************************************************************)
(* Two adapter calls served at the same time: resume_scorer.py lines       *)
(* 36-44, name_extractor.py lines 36-46, criteria_extractor.py lines       *)
(* 36-41, and ResumeRankerCrew.__init__, crew and kickoff.  The calls are  *)
(* interleaved between the steps of kickoff.                               *)
(***************************************************************************)
\* the keys of the inputs each adapter passes to kickoff
InputKeys(kind) ==
    CASE kind = "name" -> { "resume_content", "extract_name_only", "filename" }
      [] kind = "criteria" -> { "job_description" }
      [] OTHER -> { "resume_content", "criteria" }

RequestKinds == { "name", "criteria", "score" }

\* faulty variant: one crew object, made at import, serves every call
CrewInstanceShared(r) == 1

\* `resume_ranker_crew = ResumeRankerCrew()` inside the adapter: an object
\* of its own for every call
CrewInstance(r) == r

\* crew(), lines 150-168: the tasks for the inputs
TaskList(keys) ==
    IF "resume_content" \in keys /\ "extract_name_only" \in keys
    THEN << "extract_name" >>
    ELSE IF "job_description" \in keys /\ "resume_content" \notin keys
    THEN << "extract_criteria" >>
    ELSE << "extract_criteria", "score_resume" >>

\* kickoff line 216: the result of a scoring call is validated and repaired
Sanitizes(keys) == "extract_name_only" \notin keys /\ "resume_content" \in keys

\* kickoff lines 213-294: what kickoff returns for the text of the agent
KickoffResult(keys, raw_text) ==
    IF Sanitizes(keys) THEN KickoffRepair(raw_text).result ELSE raw_text

\* the texts an agent returns
CrewTexts ==
    { << LB, Str("name"), COLON, Str("Maria Garcia"), COMMA,
         Str("confidence"), COLON, Num(90), RB >>,
      << LS, Str("X"), COMMA, Str("Y"), RS >>,
      << LB, Str("scores"), COLON, LS >> \o FullObject("X", Num(4)) \o << RS, RB >>,
      FullObject("X", Num(4)) }

\* the adapter is called and constructs its crew (__init__, line 43)
Construct(r) ==
    /\ requests[r].pc = "idle"
    /\ \E kind \in RequestKinds :
          requests' = [requests EXCEPT ![r] =
              [@ EXCEPT !.kind = kind, !.pc = "constructed",
                        !.instance = CrewInstance(r)]]
    /\ crew_inputs' = [crew_inputs EXCEPT ![CrewInstance(r)] = {}]
    /\ UNCHANGED << scoringVars, agentVars, criteriaVars, nameVars, retryVars, routeVars >>

\* kickoff line 198: self.crew_inputs = inputs
SetInputs(r) ==
    /\ requests[r].pc = "constructed"
    /\ crew_inputs' = [crew_inputs EXCEPT ![requests[r].instance] =
                           InputKeys(requests[r].kind)]
    /\ requests' = [requests EXCEPT ![r].pc = "inputs"]
    /\ UNCHANGED << scoringVars, agentVars, criteriaVars, nameVars, retryVars, routeVars >>

\* kickoff line 213: self.crew() selects the tasks, the agent is invoked
SelectTasks(r) ==
    /\ requests[r].pc = "inputs"
    /\ requests' = [requests EXCEPT ![r] =
          [@ EXCEPT !.tasks = TaskList(crew_inputs[requests[r].instance]),
                    !.pc = "invoked"]]
    /\ UNCHANGED crew_inputs
    /\ UNCHANGED << scoringVars, agentVars, criteriaVars, nameVars, retryVars, routeVars >>

\* the agent answers
CrewAnswers(r) ==
    /\ requests[r].pc = "invoked"
    /\ \E text \in CrewTexts :
          requests' = [requests EXCEPT ![r] = [@ EXCEPT !.raw = text, !.pc = "answered"]]
    /\ UNCHANGED crew_inputs
    /\ UNCHANGED << scoringVars, agentVars, criteriaVars, nameVars, retryVars, routeVars >>

\* kickoff lines 216-294: the result for the inputs the object holds now
KickoffReturns(r) ==
    /\ requests[r].pc = "answered"
    /\ requests' = [requests EXCEPT ![r] =
          [@ EXCEPT !.result = KickoffResult(crew_inputs[requests[r].instance],
                                             requests[r].raw),
                    !.pc = "done"]]
    /\ UNCHANGED crew_inputs
    /\ UNCHANGED << scoringVars, agentVars, criteriaVars, nameVars, retryVars, routeVars >>

NextCrews ==
    \/ \E r \in Requests : Construct(r)
    \/ \E r \in Requests : SetInputs(r)
    \/ \E r \in Requests : SelectTasks(r)
    \/ \E r \in Requests : CrewAnswers(r)
    \/ \E r \in Requests : KickoffReturns(r)

SpecCrews == Init /\ [][NextCrews]_vars

====
